---- MODULE Spec2Model ----
(***************************************************************************)
(* Model of the RFC commands of agx (src/src/rfc): `rfc new` (create_rfc)  *)
(* and `rfc revise` (revise_rfc) acting on the files of the `rfc`          *)
(* directory, with the title index, the three-tier title resolver, the    *)
(* identifier allocator and slugify.                                       *)
(*                                                                         *)
(* Text is modelled as a sequence of one-character strings, so that trim,  *)
(* ASCII case folding, slugify, zero-padded formatting and prefix parsing  *)
(* are computed character by character as the code computes them.          *)
(***************************************************************************)
EXTENDS Integers, Sequences, FiniteSets, TLC

\* files:   the rfc directory, a function from file names to documents
\* now:     the second that timestamp_now reads
\* removed: the number of document files removed by hand so far
\* last:    the last command, the directory it found and its outcome
VARIABLES files, now, removed, last

vars == <<files, now, removed, last>>

(***************************************************************************)
(* Characters                                                              *)
(***************************************************************************)

DigitChars == <<"0", "1", "2", "3", "4", "5", "6", "7", "8", "9">>

LowerChars ==
    <<"a", "b", "c", "d", "e", "f", "g", "h", "i", "j", "k", "l", "m",
      "n", "o", "p", "q", "r", "s", "t", "u", "v", "w", "x", "y", "z">>

UpperChars ==
    <<"A", "B", "C", "D", "E", "F", "G", "H", "I", "J", "K", "L", "M",
      "N", "O", "P", "Q", "R", "S", "T", "U", "V", "W", "X", "Y", "Z">>

Range(s) == {s[i] : i \in DOMAIN s}

DigitSet == Range(DigitChars)

UpperSet == Range(UpperChars)

AlphanumericSet == Range(DigitChars) \cup Range(LowerChars) \cup Range(UpperChars)

\* char::is_ascii_digit
is_ascii_digit(ch) == ch \in DigitSet

\* char::is_ascii_alphanumeric
is_ascii_alphanumeric(ch) == ch \in AlphanumericSet

\* space, tab, line feed, form feed, carriage return
AsciiWhitespace == {" ", "\t", "\n", "\f", "\r"}

\* char::is_ascii_whitespace
is_ascii_whitespace(ch) == ch \in AsciiWhitespace

\* char::is_whitespace (the Unicode White_Space property used by str::trim):
\* the ASCII whitespace, and code points outside ASCII such as U+00A0, which
\* the one-element token "NBSP" stands for.
is_whitespace(ch) == is_ascii_whitespace(ch) \/ ch = "NBSP"

\* char::to_ascii_lowercase
char_to_ascii_lowercase(ch) ==
    IF ch \in UpperSet
    THEN LowerChars[CHOOSE i \in DOMAIN UpperChars : UpperChars[i] = ch]
    ELSE ch

(***************************************************************************)
(* Text helpers (std)                                                      *)
(***************************************************************************)

\* str::to_ascii_lowercase
to_ascii_lowercase(s) == [i \in DOMAIN s |-> char_to_ascii_lowercase(s[i])]

RECURSIVE trim_start(_)
trim_start(s) ==
    IF s # <<>> /\ is_whitespace(Head(s)) THEN trim_start(Tail(s)) ELSE s

RECURSIVE trim_end(_)
trim_end(s) ==
    IF s # <<>> /\ is_whitespace(s[Len(s)])
    THEN trim_end(SubSeq(s, 1, Len(s) - 1))
    ELSE s

\* str::trim
trim(s) == trim_end(trim_start(s))

\* str::starts_with
starts_with(s, p) == Len(p) <= Len(s) /\ SubSeq(s, 1, Len(p)) = p

\* str::ends_with
ends_with(s, p) ==
    Len(p) <= Len(s) /\ SubSeq(s, Len(s) - Len(p) + 1, Len(s)) = p

\* str::contains
contains(s, p) ==
    \E i \in 0..(Len(s) - Len(p)) : SubSeq(s, i + 1, i + Len(p)) = p

\* s.chars().all(|ch| ch.is_ascii_digit())
all_ascii_digit(s) == \A i \in DOMAIN s : is_ascii_digit(s[i])

DigitVal(ch) == (CHOOSE i \in DOMAIN DigitChars : DigitChars[i] = ch) - 1

RECURSIVE DecimalValue(_)
DecimalValue(s) ==
    IF s = <<>> THEN 0
    ELSE 10 * DecimalValue(SubSeq(s, 1, Len(s) - 1)) + DigitVal(s[Len(s)])

RECURSIVE strip_zeros(_)
strip_zeros(s) ==
    IF Len(s) > 1 /\ Head(s) = "0" THEN strip_zeros(Tail(s)) ELSE s

\* Lexicographic order of two digit strings of the same length.
RECURSIVE DigitsLeq(_, _)
DigitsLeq(s, t) ==
    IF s = <<>> THEN TRUE
    ELSE IF DigitVal(Head(s)) # DigitVal(Head(t))
    THEN DigitVal(Head(s)) < DigitVal(Head(t))
    ELSE DigitsLeq(Tail(s), Tail(t))

\* u32::MAX = 4294967295, kept as digits: the value exceeds the integers of
\* the model checker, so the range test of parse is made on the digits.
U32MaxDigits == <<"4", "2", "9", "4", "9", "6", "7", "2", "9", "5">>

fits_digits(d) ==
    \/ Len(d) < Len(U32MaxDigits)
    \/ Len(d) = Len(U32MaxDigits) /\ DigitsLeq(d, U32MaxDigits)

fits_u32(s) == fits_digits(strip_zeros(s))

ParseError == -1

\* str::parse::<u32>: the value of a non-empty digit string that fits in 32
\* bits, an error (ParseError) otherwise.  A leading `+` is outside the
\* alphabet of the model.
parse_u32(s) ==
    IF s # <<>> /\ all_ascii_digit(s) /\ fits_u32(s)
    THEN DecimalValue(s)
    ELSE ParseError

RECURSIVE Decimal(_)
Decimal(n) ==
    IF n < 10 THEN <<DigitChars[n + 1]>>
    ELSE Decimal(n \div 10) \o <<DigitChars[(n % 10) + 1]>>

RECURSIVE PadZero(_, _)
PadZero(s, width) == IF Len(s) >= width THEN s ELSE PadZero(<<"0">> \o s, width)

IdWidth == 4

\* format!("{:04}", n): decimal digits, padded with zeros on the left up to
\* a MINIMUM width of four; a wider number is not truncated.
format_04(n) == PadZero(Decimal(n), IdWidth)

(***************************************************************************)
(* util.rs                                                                 *)
(***************************************************************************)

\* One iteration of the loop of slugify over the characters of the input;
\* st = [output, saw_dash].
slugify_step_resetting(st, ch) ==
    IF is_ascii_alphanumeric(ch)
    THEN [output |-> Append(st.output, char_to_ascii_lowercase(ch)),
          saw_dash |-> FALSE]
    ELSE IF is_ascii_whitespace(ch) \/ ch = "-" \/ ch = "_"
    THEN IF st.saw_dash \/ st.output = <<>>
         THEN st
         ELSE [output |-> Append(st.output, "-"), saw_dash |-> TRUE]
    ELSE [st EXCEPT !.saw_dash = FALSE]

slugify_step(st, ch) ==
    IF is_ascii_alphanumeric(ch)
    THEN [output |-> Append(st.output, char_to_ascii_lowercase(ch)),
          saw_dash |-> FALSE]
    ELSE IF is_ascii_whitespace(ch) \/ ch = "-" \/ ch = "_"
    THEN IF st.saw_dash \/ st.output = <<>>
         THEN st
         ELSE [output |-> Append(st.output, "-"), saw_dash |-> TRUE]
    ELSE st

RECURSIVE slugify_loop(_, _)
slugify_loop(st, input) ==
    IF input = <<>> THEN st
    ELSE slugify_loop(slugify_step(st, Head(input)), Tail(input))

RECURSIVE pop_dashes(_)
pop_dashes(output) ==
    IF output # <<>> /\ output[Len(output)] = "-"
    THEN pop_dashes(SubSeq(output, 1, Len(output) - 1))
    ELSE output

Untitled == <<"u", "n", "t", "i", "t", "l", "e", "d">>

\* A variant of or_untitled whose fallback begins with a capital letter
or_untitled_capitalized(output) ==
    IF output = <<>> THEN <<"U">> \o Tail(Untitled) ELSE output

\* if output.is_empty() { return "untitled" }
or_untitled(output) == IF output = <<>> THEN Untitled ELSE output

slugify(input) ==
    or_untitled(pop_dashes(slugify_loop([output |-> <<>>, saw_dash |-> FALSE],
                                        input).output))

\* A variant of dedupe_step that compares a value with the last kept one alone
dedupe_step_adjacent(deduped, value) ==
    IF deduped # <<>> /\ deduped[Len(deduped)] = value THEN deduped ELSE Append(deduped, value)

\* One iteration of the loop of dedupe
dedupe_step(deduped, value) ==
    IF value \in Range(deduped) THEN deduped ELSE Append(deduped, value)

RECURSIVE dedupe(_)
dedupe(values) ==
    IF values = <<>> THEN <<>>
    ELSE dedupe_step(dedupe(SubSeq(values, 1, Len(values) - 1)), values[Len(values)])

(***************************************************************************)
(* The rfc directory                                                       *)
(*                                                                         *)
(* files maps each file name of the rfc directory to its content.  The     *)
(* content of a document is kept parsed: the TOML metadata as a record     *)
(* and the body as text.  last records the latest command: its arguments,  *)
(* what it read from its environment, the directory before it ran, and     *)
(* its outcome.                                                            *)
(***************************************************************************)

MdExt == <<".", "m", "d">>

\* "0000-template.md"
TemplateName == <<"0", "0", "0", "0", "-", "t", "e", "m", "p", "l", "a", "t", "e">> \o MdExt

\* file_name.chars().take(4).collect()
take4(file_name) == SubSeq(file_name, 1, IF Len(file_name) < IdWidth THEN Len(file_name) ELSE IdWidth)

\* prefix.len() != 4 || !prefix.chars().all(|ch| ch.is_ascii_digit())
has_id_prefix(file_name) ==
    Len(take4(file_name)) = IdWidth /\ all_ascii_digit(take4(file_name))

\* The orders in which read_dir may yield the names of a set of files.
Orders(S) ==
    {o \in [1..Cardinality(S) -> S] : \A i, j \in DOMAIN o : o[i] = o[j] => i = j}

(***************************************************************************)
(* cli.rs                                                                  *)
(***************************************************************************)

NoRef == [is_id |-> TRUE, id |-> 0, title |-> <<>>]

\* RfcReference::from_str
\* The branches of RfcReference::from_str on the trimmed value and, for a
\* digit string, its value as u32
reference_of(normalized, parsed) ==
    IF normalized = <<>>
    THEN [err |-> "empty_reference", ref |-> NoRef]
    ELSE IF all_ascii_digit(normalized)
    THEN IF parsed = ParseError
         THEN [err |-> "invalid_rfc_id", ref |-> NoRef]
         ELSE [err |-> "", ref |-> [is_id |-> TRUE, id |-> parsed, title |-> <<>>]]
    ELSE [err |-> "", ref |-> [is_id |-> FALSE, id |-> 0, title |-> normalized]]

RfcReference_from_str(value) == reference_of(trim(value), parse_u32(trim(value)))

RECURSIVE join_underscore(_)
join_underscore(parts) ==
    IF Len(parts) = 1 THEN parts[1]
    ELSE parts[1] \o <<"_">> \o join_underscore(Tail(parts))

\* RfcEditArgs::resolved_title; an Option is a sequence of length 0 or 1.
resolved_title(cli) ==
    IF cli.title # <<>> THEN cli.title
    ELSE IF cli.title_parts # <<>> THEN <<join_underscore(cli.title_parts)>>
    ELSE cli.title_arg

(***************************************************************************)
(* reference.rs                                                            *)
(***************************************************************************)

\* parse_rfc_id_item on the `rfc` field, a TOML string
parse_rfc_id_item(item) == parse_u32(item)

\* The names that RfcTitleIndex::load indexes, among the names of a directory
indexed_names(dir) ==
    {name \in DOMAIN dir :
        /\ ends_with(name, MdExt)
        /\ name # TemplateName
        /\ has_id_prefix(name)}

\* A variant of RfcTitleEntry whose slug is the lower-cased title
RfcTitleEntry_unslugged(doc) ==
    [id |-> parse_rfc_id_item(doc.rfc),
     title |-> doc.title,
     title_folded |-> to_ascii_lowercase(trim(doc.title)),
     title_slug |-> to_ascii_lowercase(doc.title)]

RfcTitleEntry(doc) ==
    [id |-> parse_rfc_id_item(doc.rfc),
     title |-> doc.title,
     title_folded |-> to_ascii_lowercase(trim(doc.title)),
     title_slug |-> slugify(doc.title)]

\* The states of a file that parse_rfc_id_and_title rejects: no opening or
\* no closing `+++`, metadata that is not TOML, no `title`, no `rfc`.
Unreadable == {"no_frontmatter", "unterminated", "bad_toml", "no_title", "no_rfc"}

\* parse_rfc_id_and_title succeeds on the file
readable(doc) == doc.kind \notin Unreadable /\ parse_rfc_id_item(doc.rfc) # ParseError

\* A variant of RfcTitleIndex::load that leaves the rejected files out
RfcTitleIndex_load_skipping(dir, order) ==
    [err |-> "",
     entries |-> [i \in DOMAIN SelectSeq(order, LAMBDA name : readable(dir[name])) |->
                     RfcTitleEntry(dir[SelectSeq(order, LAMBDA name : readable(dir[name]))[i]])]]

\* RfcTitleIndex::load: order is the order in which read_dir yields the
\* indexed files.
RfcTitleIndex_load(dir, order) ==
    IF \E i \in DOMAIN order : ~readable(dir[order[i]])
    THEN [err |-> "index_failed", entries |-> <<>>]
    ELSE [err |-> "",
          entries |-> [i \in DOMAIN order |-> RfcTitleEntry(dir[order[i]])]]

NoMatch == [err |-> "", id |-> 0, matches |-> <<>>]

\* A variant of tier that settles an ambiguity by taking the first match
tier_first_match(matches, ambiguity, otherwise) ==
    IF Len(matches) >= 1 THEN [err |-> "", id |-> matches[1].id, matches |-> <<>>]
    ELSE otherwise

\* The decision of resolve_title on the matches of one tier: the single
\* match, an ambiguity error, or the outcome of the next tier
tier(matches, ambiguity, otherwise) ==
    IF Len(matches) = 1 THEN [NoMatch EXCEPT !.id = matches[1].id]
    ELSE IF Len(matches) > 1
    THEN [NoMatch EXCEPT !.err = ambiguity, !.matches = matches]
    ELSE otherwise

\* A variant of resolve_normalized without the exact tier
resolve_without_exact(entries, normalized) ==
    LET IsFolded(entry) == entry.title_folded = to_ascii_lowercase(normalized)
        IsSlug(entry) == entry.title_slug = slugify(normalized)
        folded == SelectSeq(entries, IsFolded)
        slug == SelectSeq(entries, IsSlug)
    IN  IF normalized = <<>>
        THEN [err |-> "empty_title_reference", id |-> 0, matches |-> <<>>]
        ELSE IF Len(folded) = 1 THEN [err |-> "", id |-> folded[1].id, matches |-> <<>>]
        ELSE IF Len(folded) > 1
        THEN [err |-> "ambiguous_folded", id |-> 0, matches |-> folded]
        ELSE IF Len(slug) = 1 THEN [err |-> "", id |-> slug[1].id, matches |-> <<>>]
        ELSE IF Len(slug) > 1 THEN [err |-> "ambiguous_slug", id |-> 0, matches |-> slug]
        ELSE [err |-> "not_found", id |-> 0, matches |-> <<>>]

exact_matches(entries, normalized) ==
    LET IsExact(entry) == entry.title = normalized
    IN  SelectSeq(entries, IsExact)

folded_matches(entries, folded) ==
    LET IsFolded(entry) == entry.title_folded = folded
    IN  SelectSeq(entries, IsFolded)

slug_matches(entries, slug) ==
    LET IsSlug(entry) == entry.title_slug = slug
    IN  SelectSeq(entries, IsSlug)

\* resolve_title on the trimmed input
resolve_normalized(entries, normalized) ==
    IF normalized = <<>>
    THEN [NoMatch EXCEPT !.err = "empty_title_reference"]
    ELSE tier(exact_matches(entries, normalized), "ambiguous_exact",
         tier(folded_matches(entries, to_ascii_lowercase(normalized)), "ambiguous_folded",
         tier(slug_matches(entries, slugify(normalized)), "ambiguous_slug",
              [NoMatch EXCEPT !.err = "not_found"])))

\* RfcTitleIndex::resolve_title
resolve_title(entries, input) == resolve_normalized(entries, trim(input))

\* A variant of conflicting that compares the folded titles alone
conflicting_folded_only(entries, folded, slug) ==
    LET Conflicts(entry) == entry.title_folded = folded
    IN  SelectSeq(entries, Conflicts)

conflicting(entries, folded, slug) ==
    LET Conflicts(entry) == entry.title_folded = folded \/ entry.title_slug = slug
    IN  SelectSeq(entries, Conflicts)

conflicts_normalized(entries, normalized) ==
    IF normalized = <<>> THEN <<>>
    ELSE conflicting(entries, to_ascii_lowercase(normalized), slugify(normalized))

\* RfcTitleIndex::find_title_conflicts
find_title_conflicts(entries, input) == conflicts_normalized(entries, trim(input))

\* The outcome of ensure_unique_rfc_title on the loaded index and the
\* conflicts found: the error names the one match, or lists them all
\* (format_match_list).
unique_or_conflict(index, matches) ==
    IF index.err # "" THEN [err |-> index.err, matches |-> <<>>]
    ELSE IF matches = <<>> THEN [err |-> "", matches |-> <<>>]
    ELSE IF Len(matches) = 1 THEN [err |-> "title_exists", matches |-> matches]
    ELSE [err |-> "title_conflicts", matches |-> matches]

conflicts_in(index, title) == find_title_conflicts(index.entries, title)

unique_in(index, title) == unique_or_conflict(index, conflicts_in(index, title))

\* ensure_unique_rfc_title
ensure_unique_rfc_title(dir, order, title) ==
    unique_in(RfcTitleIndex_load(dir, order), title)

\* A variant of resolve_step that keeps a numeric reference only when the
\* title lookup found a document
resolve_step_known_ids(before, reference, found) ==
    IF before.err # "" THEN before
    ELSE IF found.err # ""
    THEN [err |-> found.err, ids |-> <<>>, matches |-> found.matches]
    ELSE [before EXCEPT !.ids = Append(@, IF reference.is_id THEN reference.id ELSE found.id)]

\* One iteration of the loop of resolve_reference_list: before holds the ids
\* resolved so far or the first error, found is the outcome of resolve_title
\* for a title reference.
resolve_step(before, reference, found) ==
    IF before.err # "" THEN before
    ELSE IF reference.is_id THEN [before EXCEPT !.ids = Append(@, reference.id)]
    ELSE IF found.err # ""
    THEN [err |-> found.err, ids |-> <<>>, matches |-> found.matches]
    ELSE [before EXCEPT !.ids = Append(@, found.id)]

RECURSIVE resolve_each(_, _)
resolve_each(references, entries) ==
    IF references = <<>> THEN [err |-> "", ids |-> <<>>, matches |-> <<>>]
    ELSE resolve_step(resolve_each(SubSeq(references, 1, Len(references) - 1), entries),
                      references[Len(references)],
                      resolve_title(entries, references[Len(references)].title))

\* Ok(dedupe(&resolved))
dedupe_resolved(resolved) ==
    IF resolved.err # "" THEN resolved ELSE [resolved EXCEPT !.ids = dedupe(@)]

\* resolve_reference_list
resolve_reference_list(references, entries) ==
    dedupe_resolved(resolve_each(references, entries))

NoReferences ==
    [err |-> "", matches |-> <<>>, index |-> <<>>, loaded |-> FALSE,
     prerequisite |-> <<>>, supersedes |-> <<>>, superseded_by |-> <<>>]

\* .any(|reference| matches!(reference, RfcReference::Title(_)))
any_title(all) == \E i \in DOMAIN all : ~all[i].is_id

needs_title_lookup(refs) ==
    any_title(refs.prerequisite \o refs.supersedes \o refs.superseded_by)

\* The three lists of resolve_metadata_references, resolved in order; the
\* first error is the error of the whole.
resolved_references(base, index, p, s, b) ==
    IF index.err # "" THEN [base EXCEPT !.err = index.err]
    ELSE IF p.err # "" THEN [base EXCEPT !.err = p.err, !.matches = p.matches]
    ELSE IF s.err # "" THEN [base EXCEPT !.err = s.err, !.matches = s.matches]
    ELSE IF b.err # "" THEN [base EXCEPT !.err = b.err, !.matches = b.matches]
    ELSE [base EXCEPT !.prerequisite = p.ids, !.supersedes = s.ids,
                      !.superseded_by = b.ids]

resolve_with(refs, loaded, index) ==
    resolved_references([NoReferences EXCEPT !.index = index.entries, !.loaded = loaded],
                        index,
                        resolve_reference_list(refs.prerequisite, index.entries),
                        resolve_reference_list(refs.supersedes, index.entries),
                        resolve_reference_list(refs.superseded_by, index.entries))

\* resolve_metadata_references: refs holds the three parsed reference lists
\* of the command line.  The title index is loaded only when some reference
\* is a title.
resolve_metadata_references(refs, dir, order) ==
    resolve_with(refs, needs_title_lookup(refs),
                 IF needs_title_lookup(refs) THEN RfcTitleIndex_load(dir, order)
                 ELSE [err |-> "", entries |-> <<>>])

(***************************************************************************)
(* util.rs: identifier allocation                                          *)
(***************************************************************************)

Max(S) == CHOOSE x \in S : \A y \in S : y <= x

\* A variant of next_rfc_id that numbers the next document by counting
next_by_count(dir) ==
    format_04(Cardinality({n \in DOMAIN dir : ends_with(n, MdExt) /\ has_id_prefix(n)
                                               /\ n # TemplateName}) + 1)

\* next_rfc_id: every name ending in ".md" whose first four characters are
\* digits counts, the template included (its prefix parses to 0).
next_rfc_id(dir) ==
    format_04(Max({0} \cup {parse_u32(take4(name)) :
                    name \in {n \in DOMAIN dir : ends_with(n, MdExt) /\ has_id_prefix(n)}})
              + 1)

(***************************************************************************)
(* lookup.rs                                                               *)
(***************************************************************************)

\* collect_rfc_candidates
collect_rfc_candidates(dir) ==
    {name \in DOMAIN dir : ends_with(name, MdExt) /\ name # TemplateName}

\* choose_single_match
choose_single_match(matches) ==
    IF matches = {} THEN [err |-> "not_located", name |-> <<>>]
    ELSE IF Cardinality(matches) = 1
    THEN [err |-> "", name |-> CHOOSE name \in matches : TRUE]
    ELSE [err |-> "multiple_located", name |-> <<>>]

\* select_rfc_by_id
starting_with(candidates, id_match) ==
    {name \in candidates : starts_with(name, id_match)}

select_parsed(parsed, candidates) ==
    IF parsed = ParseError THEN [err |-> "invalid_selector", name |-> <<>>]
    ELSE choose_single_match(starting_with(candidates, format_04(parsed)))

\* select_rfc_by_id
select_rfc_by_id(selector, candidates) == select_parsed(parse_u32(selector), candidates)

\* locate_existing_rfc.  The selectors of the model name no entry of the
\* working directory itself, so Path::new(selector).exists() is false; the
\* paths rfc/<selector> and rfc/<selector>.md are looked up in the directory.
locate_among(dir, selector, candidates, slug) ==
    IF all_ascii_digit(selector) THEN select_rfc_by_id(selector, candidates)
    ELSE IF selector \in DOMAIN dir THEN [err |-> "", name |-> selector]
    ELSE IF (selector \o MdExt) \in DOMAIN dir
    THEN [err |-> "", name |-> selector \o MdExt]
    ELSE IF slug = <<>> THEN [err |-> "not_located", name |-> <<>>]
    ELSE choose_single_match(
            {name \in candidates :
                ends_with(name, <<"-">> \o slug \o MdExt) \/ contains(name, slug)})

locate_existing_rfc(dir, selector) ==
    locate_among(dir, selector, collect_rfc_candidates(dir), slugify(selector))

(***************************************************************************)
(* Document text                                                           *)
(***************************************************************************)

IndexOf(s, ch) ==
    IF \E i \in DOMAIN s : s[i] = ch
    THEN CHOOSE i \in DOMAIN s : s[i] = ch /\ \A j \in 1..(i - 1) : s[j] # ch
    ELSE 0

strip_cr(line) ==
    IF line # <<>> /\ line[Len(line)] = "\r" THEN SubSeq(line, 1, Len(line) - 1) ELSE line

\* str::lines
RECURSIVE lines(_)
lines_from(s, i) ==
    IF i = 0 THEN <<strip_cr(s)>>
    ELSE <<strip_cr(SubSeq(s, 1, i - 1))>> \o lines(SubSeq(s, i + 1, Len(s)))

lines(s) == IF s = <<>> THEN <<>> ELSE lines_from(s, IndexOf(s, "\n"))

\* str::trim_start_matches('\n')
RECURSIVE trim_start_newlines(_)
trim_start_newlines(s) ==
    IF s # <<>> /\ Head(s) = "\n" THEN trim_start_newlines(Tail(s)) ELSE s

ensure_final_newline(s) == IF ends_with(s, <<"\n">>) THEN s ELSE Append(s, "\n")

HeadingPrefix == <<"#", " ", "R", "F", "C", " ">>

\* format!("# RFC {rfc_id}: {title}")
heading_line(rfc_id, title) == HeadingPrefix \o rfc_id \o <<":", " ">> \o title

\* A variant of rewrite_line that leaves blank lines out
rewrite_line_dropping_blank(st, line, heading, hit) ==
    [output |-> st.output \o (IF hit THEN heading \o <<"\n">>
                              ELSE IF line = <<>> THEN <<>> ELSE line \o <<"\n">>),
     replaced |-> st.replaced \/ hit]

\* The loop of rewrite_rfc_heading over body.lines(): st = [output, replaced]
rewrite_line(st, line, heading, hit) ==
    [output |-> st.output \o (IF hit THEN heading ELSE line) \o <<"\n">>,
     replaced |-> st.replaced \/ hit]

RECURSIVE rewrite_lines(_, _, _)
rewrite_lines(ls, heading, st) ==
    IF ls = <<>> THEN st
    ELSE rewrite_lines(Tail(ls), heading,
            rewrite_line(st, Head(ls), heading,
                         ~st.replaced /\ starts_with(Head(ls), HeadingPrefix)))

\* The end of rewrite_rfc_heading: the rewritten lines, or the heading put
\* before the body
rewritten_or_prefixed(st, body, heading) ==
    IF st.replaced THEN st.output
    ELSE ensure_final_newline(heading \o <<"\n", "\n">> \o trim_start_newlines(body))

rewrite_with(body, heading) ==
    rewritten_or_prefixed(
        rewrite_lines(lines(body), heading, [output |-> <<>>, replaced |-> FALSE]),
        body, heading)

\* rewrite_rfc_heading
rewrite_rfc_heading(body, rfc_id, title) == rewrite_with(body, heading_line(rfc_id, title))

(***************************************************************************)
(* Documents                                                               *)
(***************************************************************************)

NoDoc ==
    [kind |-> "none", rfc |-> <<>>, title |-> <<>>, authors |-> <<>>,
     agents |-> <<>>, discussion |-> <<>>, tracking_issue |-> <<>>,
     prerequisite |-> <<>>, supersedes |-> <<>>, superseded_by |-> <<>>,
     created |-> 0, last_updated |-> 0, revision |-> <<>>, body |-> <<>>]

\* The content of rfc/0000-template.md: a Tera template, not a document.
TemplateFile == [NoDoc EXCEPT !.kind = "template"]

\* INITIAL_REVISION_CHANGE
INITIAL_REVISION_CHANGE == "Initial draft"

\* REVISED_REVISION_CHANGE
REVISED_REVISION_CHANGE == "Revised"

\* toml_escape
RECURSIVE toml_escape(_)
toml_escape(input) ==
    IF input = <<>> THEN <<>>
    ELSE (IF Head(input) = "\\" THEN <<"\\", "\\">>
          ELSE IF Head(input) = "\"" THEN <<"\\", "\"">>
          ELSE IF Head(input) = "\n" THEN <<"\\", "n">>
          ELSE <<Head(input)>>) \o toml_escape(Tail(input))

\* The value that the TOML parser reads back from a basic string holding the
\* escapes \\, \" and \n.
RECURSIVE toml_string_value(_)
toml_string_value(text) ==
    IF text = <<>> THEN <<>>
    ELSE IF Head(text) = "\\" /\ Len(text) >= 2
    THEN <<IF text[2] = "n" THEN "\n" ELSE text[2]>> \o toml_string_value(SubSeq(text, 3, Len(text)))
    ELSE <<Head(text)>> \o toml_string_value(Tail(text))

\* The sections that follow the heading in the body of the template.
TemplateSections == <<"#", "#", " ", "S", "\n">>

\* The document that Tera renders from the template and the context that
\* create_rfc fills, as read back from the written file: the metadata block
\* holds the context values and the body, the text after the closing `+++`
\* line, is a blank line, the heading and the sections of the template.
\* Authors, agents and the scalar fields are atoms of the model.
render_rfc(rfc_id, title, authors, agents, cli, references, timestamp) ==
    [kind |-> "rfc",
     rfc |-> rfc_id,
     title |-> toml_string_value(toml_escape(title)),
     authors |-> authors,
     agents |-> agents,
     discussion |-> cli.discussion,
     tracking_issue |-> cli.tracking_issue,
     prerequisite |-> references.prerequisite,
     supersedes |-> references.supersedes,
     superseded_by |-> references.superseded_by,
     created |-> timestamp,
     last_updated |-> timestamp,
     revision |-> <<[date |-> timestamp, change |-> INITIAL_REVISION_CHANGE]>>,
     body |-> <<"\n">> \o heading_line(rfc_id, title) \o <<"\n", "\n">> \o TemplateSections]

(***************************************************************************)
(* Command line                                                            *)
(***************************************************************************)

\* clap applies RfcReference::from_str to every value of --prerequisite,
\* --supersedes and --superseded_by; the first error rejects the command.
parse_step(before, parsed) ==
    IF before.err # "" THEN before
    ELSE IF parsed.err # "" THEN [err |-> parsed.err, refs |-> <<>>]
    ELSE [before EXCEPT !.refs = Append(@, parsed.ref)]

RECURSIVE parse_references(_)
parse_references(values) ==
    IF values = <<>> THEN [err |-> "", refs |-> <<>>]
    ELSE parse_step(parse_references(SubSeq(values, 1, Len(values) - 1)),
                    RfcReference_from_str(values[Len(values)]))

parsed_cli(p, s, b) ==
    [err |-> IF p.err # "" THEN p.err ELSE IF s.err # "" THEN s.err ELSE b.err,
     prerequisite |-> p.refs, supersedes |-> s.refs, superseded_by |-> b.refs]

parse_cli(cli) ==
    parsed_cli(parse_references(cli.prerequisite), parse_references(cli.supersedes),
               parse_references(cli.superseded_by))

NoOutcome ==
    [err |-> "", path |-> <<>>, rfc_id |-> <<>>, matches |-> <<>>,
     references |-> NoReferences, doc |-> NoDoc]

Fail(kind) == [NoOutcome EXCEPT !.err = kind]

(***************************************************************************)
(* create.rs                                                               *)
(***************************************************************************)

\* is_numeric_selector
nonempty_digits(normalized) == normalized # <<>> /\ all_ascii_digit(normalized)

\* A variant of is_numeric_selector that looks at the value as given
is_numeric_selector_untrimmed(value) == nonempty_digits(value)

is_numeric_selector(value) == nonempty_digits(trim(value))

\* The output path of create_rfc, as a file name of the rfc directory
output_name(rfc_id, title) == rfc_id \o <<"-">> \o slugify(title) \o MdExt

\* A variant of create_at that writes without looking for the output path
create_at_unchecked(cli, title, authors, agents, references, rfc_id, output_path, dir, timestamp) ==
    [NoOutcome EXCEPT
        !.path = output_path,
        !.rfc_id = rfc_id,
        !.references = references,
        !.doc = render_rfc(rfc_id, title, authors, agents, cli, references, timestamp)]

\* The end of create_rfc, from the allocation of the identifier on
create_at(cli, title, authors, agents, references, rfc_id, output_path, dir, timestamp) ==
    IF output_path \in DOMAIN dir
    THEN [Fail("output_exists") EXCEPT !.path = output_path, !.rfc_id = rfc_id,
                                       !.references = references]
    ELSE [NoOutcome EXCEPT
            !.path = output_path,
            !.rfc_id = rfc_id,
            !.references = references,
            !.doc = render_rfc(rfc_id, title, authors, agents, cli, references, timestamp)]

\* let rfc_id = next_rfc_id(..); let output_path = ..join(format!("{rfc_id}-{}.md", ..))
create_with_id(cli, title, authors, agents, references, rfc_id, dir, timestamp) ==
    create_at(cli, title, authors, agents, references, rfc_id,
              output_name(rfc_id, title), dir, timestamp)

\* The steps of create_rfc in order: each failure ends the command.
create_steps(cli, refs, title, unique, authors, agents, references, dir, timestamp) ==
    IF refs.err # "" THEN Fail(refs.err)
    ELSE IF resolved_title(cli) = <<>> THEN Fail("missing_title")
    ELSE IF is_numeric_selector(title) THEN Fail("numeric_title")
    ELSE IF unique.err # "" THEN [Fail(unique.err) EXCEPT !.matches = unique.matches]
    ELSE IF authors = <<>> THEN Fail("no_author")
    ELSE IF references.err # ""
    THEN [Fail(references.err) EXCEPT !.matches = references.matches,
                                      !.references = references]
    ELSE create_with_id(cli, title, authors, agents, references, next_rfc_id(dir),
                        dir, timestamp)

\* if authors.is_empty() { authors.push(resolve_default_author()?) }
authors_or_default(authors, git) == IF authors = <<>> THEN git ELSE authors

\* create_rfc with its two directories told apart: project_dir is the rfc
\* directory that resolve_project_rfc_dir names, scanned for titles;
\* rfc_dir is RFC_DIR under the working directory, where the identifier is
\* allocated and the file written.
create_titled_from(cli, refs, title, git, project_dir, order, rfc_dir, timestamp) ==
    create_steps(cli, refs, title,
                 ensure_unique_rfc_title(project_dir, order, title),
                 authors_or_default(dedupe(cli.authors), git),
                 dedupe(cli.agents),
                 resolve_metadata_references(refs, project_dir, order),
                 rfc_dir, timestamp)

create_rfc_from(cli, git, project_dir, order, rfc_dir, timestamp) ==
    create_titled_from(cli, parse_cli(cli), resolved_title(cli)[1], git, project_dir, order,
                       rfc_dir, timestamp)

\* The command run in the project root, where the two are one directory
create_titled(cli, refs, title, git, dir, order, timestamp) ==
    create_titled_from(cli, refs, title, git, dir, order, dir, timestamp)

\* create_rfc: git is the outcome of resolve_default_author (git config
\* user.name), an Option; order is the read_dir order of the indexed files;
\* timestamp is timestamp_now().
create_rfc(cli, git, dir, order, timestamp) ==
    create_titled(cli, parse_cli(cli), resolved_title(cli)[1], git, dir, order, timestamp)

(***************************************************************************)
(* revise.rs                                                               *)
(***************************************************************************)

\* A variant of append_unique_array_value that pushes without looking
append_array_value(array, value_to_add) == Append(array, value_to_add)

\* append_unique_array_value on a list of strings: a missing key and an empty
\* array both give the list holding the value alone.
append_unique_array_value(array, value_to_add) ==
    IF value_to_add \in Range(array) THEN array ELSE Append(array, value_to_add)

\* A variant of append_all_unique that pushes every value
append_all(array, values) == array \o values

\* for value in dedupe(&values) { append_unique_array_value(.., &value)? }
RECURSIVE append_all_unique(_, _)
append_all_unique(array, values) ==
    IF values = <<>> THEN array
    ELSE append_all_unique(append_unique_array_value(array, Head(values)), Tail(values))

\* set_integer_array_value, applied when the resolved list is not empty
\* A variant of set_integer_array_value that adds to the stored list
extend_integer_array_value(stored, values) == stored \o values

set_integer_array_value(stored, values) == IF values # <<>> THEN values ELSE stored

\* A variant of revision_title_override that falls back to the positional
\* argument, as resolved_title does
revision_title_or_positional(cli) == resolved_title(cli)

\* revision_title_override
revision_title_override(cli) ==
    IF cli.title # <<>> THEN cli.title
    ELSE IF cli.title_parts # <<>> THEN <<join_underscore(cli.title_parts)>>
    ELSE <<>>

\* A variant of append_revision_entry that starts the history afresh
replace_revision_entries(revision, date, change) == <<[date |-> date, change |-> change]>>

\* A variant of append_revision_entry that stamps the entry with the date of
\* the entry before it
append_revision_entry_stale(revision, date, change) ==
    Append(revision, [date |-> IF revision = <<>> THEN date ELSE revision[Len(revision)].date,
                      change |-> change])

\* append_revision_entry
append_revision_entry(revision, date, change) ==
    Append(revision, [date |-> date, change |-> change])

\* The body that split_frontmatter reads back from the text that revise_rfc
\* assembles: after the closing "+++\n" come a blank line and the rewritten
\* body without its leading newlines, ended by a newline.
assemble_body(updated_body) ==
    ensure_final_newline(<<"\n">> \o trim_start_newlines(updated_body))

title_or(title_override, stored) ==
    IF title_override # <<>> THEN title_override[1] ELSE stored

\* A variant of revised_with that stamps the created field as well
revised_with_recreated(doc, cli, references, timestamp, title) ==
    [doc EXCEPT
        !.authors = append_all_unique(@, dedupe(cli.authors)),
        !.agents = append_all_unique(@, dedupe(cli.agents)),
        !.discussion = IF cli.discussion # <<>> THEN cli.discussion ELSE @,
        !.tracking_issue = IF cli.tracking_issue # <<>> THEN cli.tracking_issue ELSE @,
        !.prerequisite = set_integer_array_value(@, references.prerequisite),
        !.supersedes = set_integer_array_value(@, references.supersedes),
        !.superseded_by = set_integer_array_value(@, references.superseded_by),
        !.title = title,
        !.kind = IF @ = "no_title" THEN "rfc" ELSE @,
        !.last_updated = timestamp,
        !.created = timestamp,
        !.revision = append_revision_entry(@, timestamp, REVISED_REVISION_CHANGE),
        !.body = assemble_body(rewrite_rfc_heading(@, doc.rfc, title))]

revised_with(doc, cli, references, timestamp, title) ==
    [doc EXCEPT
        !.authors = append_all_unique(@, dedupe(cli.authors)),
        !.agents = append_all_unique(@, dedupe(cli.agents)),
        !.discussion = IF cli.discussion # <<>> THEN cli.discussion ELSE @,
        !.tracking_issue = IF cli.tracking_issue # <<>> THEN cli.tracking_issue ELSE @,
        !.prerequisite = set_integer_array_value(@, references.prerequisite),
        !.supersedes = set_integer_array_value(@, references.supersedes),
        !.superseded_by = set_integer_array_value(@, references.superseded_by),
        !.title = title,
        !.kind = IF @ = "no_title" THEN "rfc" ELSE @,
        !.last_updated = timestamp,
        !.revision = append_revision_entry(@, timestamp, REVISED_REVISION_CHANGE),
        !.body = assemble_body(rewrite_rfc_heading(@, doc.rfc, title))]

\* The metadata and body that revise_rfc computes from a parsed document
revised_doc(doc, cli, references, timestamp) ==
    revised_with(doc, cli, references, timestamp,
                 title_or(revision_title_override(cli), doc.title))

\* A variant of revise_located that writes the lists back as soon as they
\* are extended, before the references are resolved
revise_located_writing_early(cli, refs, located, doc, references, timestamp) ==
    IF refs.err # "" THEN Fail(refs.err)
    ELSE IF cli.title_arg = <<>> THEN Fail("missing_selector")
    ELSE IF located.err # "" THEN Fail(located.err)
    ELSE IF doc.kind \in {"no_frontmatter", "unterminated", "bad_toml", "template", "none"}
    THEN [Fail("malformed_document") EXCEPT !.path = located.name]
    ELSE IF references.err # ""
    THEN [Fail(references.err) EXCEPT
            !.path = located.name,
            !.doc = [doc EXCEPT !.authors = append_all_unique(@, dedupe(cli.authors))]]
    ELSE [NoOutcome EXCEPT
            !.path = located.name,
            !.rfc_id = doc.rfc,
            !.references = references,
            !.doc = revised_doc(doc, cli, references, timestamp)]

\* The step of revise_rfc at which a damaged document makes it fail, "" if
\* none does: split_frontmatter and the TOML parser before anything else,
\* append_unique_array_value when an entry is to be added to a field that is
\* no array.
fails_before_references(cli, doc) ==
    IF doc.kind \in {"no_frontmatter", "unterminated"} THEN "malformed_frontmatter"
    ELSE IF doc.kind \in {"bad_toml", "template", "none"} THEN "unparsable_metadata"
    ELSE IF doc.kind = "authors_not_list" /\ cli.authors # <<>> THEN "not_an_array"
    ELSE IF doc.kind = "agents_not_list" /\ cli.agents # <<>> THEN "not_an_array"
    ELSE ""

\* append_revision_entry on a `revision` that is no array of tables, then
\* the reads of `rfc` and of `title` (unless the request overrides it)
fails_after_references(cli, doc) ==
    IF doc.kind = "revision_not_tables" THEN "not_an_array_of_tables"
    ELSE IF doc.kind = "no_rfc" THEN "missing_rfc_field"
    ELSE IF doc.kind = "no_title" /\ revision_title_override(cli) = <<>>
    THEN "missing_title_field"
    ELSE ""

\* The steps of revise_rfc after the document is located
revise_located(cli, refs, located, doc, references, timestamp) ==
    IF refs.err # "" THEN Fail(refs.err)
    ELSE IF cli.title_arg = <<>> THEN Fail("missing_selector")
    ELSE IF located.err # "" THEN Fail(located.err)
    ELSE IF fails_before_references(cli, doc) # ""
    THEN [Fail(fails_before_references(cli, doc)) EXCEPT !.path = located.name]
    ELSE IF references.err # ""
    THEN [Fail(references.err) EXCEPT !.path = located.name,
                                      !.matches = references.matches,
                                      !.references = references]
    ELSE IF fails_after_references(cli, doc) # ""
    THEN [Fail(fails_after_references(cli, doc)) EXCEPT !.path = located.name,
                                                       !.references = references]
    ELSE [NoOutcome EXCEPT
            !.path = located.name,
            !.rfc_id = doc.rfc,
            !.references = references,
            !.doc = revised_doc(doc, cli, references, timestamp)]

revise_at(cli, refs, located, dir, order, timestamp) ==
    revise_located(cli, refs, located, dir[located.name],
                   resolve_metadata_references(refs, dir, order), timestamp)

\* revise_rfc
revise_rfc(cli, dir, order, timestamp) ==
    revise_at(cli, parse_cli(cli), locate_existing_rfc(dir, cli.title_arg[1]),
              dir, order, timestamp)

(***************************************************************************)
(* Commands                                                                *)
(***************************************************************************)

NoCli ==
    [authors |-> <<>>, agents |-> <<>>, discussion |-> <<>>, tracking_issue |-> <<>>,
     prerequisite |-> <<>>, supersedes |-> <<>>, superseded_by |-> <<>>,
     title |-> <<>>, title_parts |-> <<>>, title_arg |-> <<>>]

EmptyDir == [name \in {} |-> NoDoc]

\* The directory with one more file, or with the content of a file replaced
WriteFile(dir, name, doc) ==
    [n \in DOMAIN dir \cup {name} |-> IF n = name THEN doc ELSE dir[n]]

RemoveFile(dir, name) == [n \in DOMAIN dir \ {name} |-> dir[n]]

Documents(dir) == {name \in DOMAIN dir : dir[name].kind = "rfc"}

\* The directory after a command: the outcome holds the document that the
\* command wrote, if it wrote one.
Written(dir, out) ==
    IF out.doc.kind # "none" THEN WriteFile(dir, out.path, out.doc) ELSE dir

MaxDocs == 3

MaxRevisions == 2

MaxClock == 1

MaxRemoved == 1

\* `agx rfc new`: main.rs dispatches to create_rfc, which writes the rendered
\* document with create_new, or fails and leaves the directory as it was.
\* read_dir yields the indexed files in any order.
Create(cli, git) ==
    /\ Cardinality(Documents(files)) < MaxDocs
    /\ \E out \in {create_rfc(cli, git, files, order, now) :
                      order \in Orders(indexed_names(files))} :
        /\ files' = Written(files, out)
        /\ last' = [op |-> "create", cli |-> cli, git |-> git, before |-> files,
                    at |-> now, out |-> out]
        /\ UNCHANGED <<now, removed>>

\* `agx rfc revise`: main.rs dispatches to revise_rfc, which writes the
\* updated text back to the located path with fs::write, or fails.
Revise(cli) ==
    \E out \in {revise_rfc(cli, files, order, now) :
                    order \in Orders(indexed_names(files))} :
        /\ out.err = "" => Len(files[out.path].revision) <= MaxRevisions
        /\ files' = Written(files, out)
        /\ last' = [op |-> "revise", cli |-> cli, git |-> <<>>, before |-> files,
                    at |-> now, out |-> out]
        /\ UNCHANGED <<now, removed>>

\* A document file is removed by hand, outside the program.
Delete(name) ==
    /\ name \in Documents(files)
    /\ removed < MaxRemoved
    /\ files' = RemoveFile(files, name)
    /\ removed' = removed + 1
    /\ last' = [op |-> "delete", cli |-> NoCli, git |-> <<>>, before |-> files,
                at |-> now, out |-> [NoOutcome EXCEPT !.path = name]]
    /\ UNCHANGED now

\* The clock that timestamp_now reads moves on by a second.
Tick ==
    /\ now < MaxClock
    /\ now' = now + 1
    /\ UNCHANGED <<files, removed, last>>

InitLast ==
    [op |-> "init", cli |-> NoCli, git |-> <<>>, before |-> EmptyDir, at |-> 0,
     out |-> NoOutcome]

\* The rfc directory of a new project, holding the template alone
TemplateDir == WriteFile(EmptyDir, TemplateName, TemplateFile)

(***************************************************************************)
(* Spec: one command on a corpus.                                          *)
(*                                                                         *)
(* The initial corpora are the directories that the commands themselves    *)
(* produce: document i is created under a title of its own and then        *)
(* revised to a title of the pool (revise checks no title conflict), so    *)
(* every combination of pool titles occurs among the indexed documents.    *)
(***************************************************************************)

\* Titles: "a", its upper-case form, a title with the same slug and another
\* case-folded form, a title whose slug is the fallback, and the empty title.
TitlePool == {<<"a">>, <<"A">>, <<"a", "!">>, <<"!">>, <<>>}

\* "b", "c", ...: the title under which document i is first created
FirstTitle(i) == <<LowerChars[i + 1]>>

AnyOrder(dir) == CHOOSE order \in Orders(indexed_names(dir)) : TRUE

\* The directory after `rfc new --author Roger --title <FirstTitle(i)>`
AfterNew(dir, i) ==
    Written(dir, create_rfc([NoCli EXCEPT !.title = <<FirstTitle(i)>>,
                                          !.authors = <<"Roger">>],
                            <<>>, dir, AnyOrder(dir), 0))

\* The directory after `rfc revise --title <title> <i>`
AfterRetitle(dir, i, title) ==
    Written(dir, revise_rfc([NoCli EXCEPT !.title_arg = <<Decimal(i)>>,
                                          !.title = <<title>>],
                            dir, AnyOrder(dir), 0))

RECURSIVE CorpusOf(_)
CorpusOf(titles) ==
    IF titles = <<>> THEN TemplateDir
    ELSE AfterRetitle(AfterNew(CorpusOf(SubSeq(titles, 1, Len(titles) - 1)), Len(titles)),
                      Len(titles), titles[Len(titles)])

Corpora ==
    {CorpusOf(titles) : titles \in UNION {[1..n -> TitlePool] : n \in 0..(MaxDocs - 1)}}

\* Values of a reference option: titles (matching at the exact, case-folded
\* or slug tier, or not at all), and ids of an existing and of no document
RefValues == {<<"a">>, <<"A">>, <<"a", "!">>, <<"!">>, <<"z">>, <<"7">>}

RefLists ==
    {<<v>> : v \in RefValues}
    \cup {<<<<"7">>, <<"1">>, <<"7">>>>, <<<<"1">>, <<" ", "a">>>>, <<<<"a">>, <<"z">>>>}

\* `rfc new --author Roger --title <t>`, with a pool title, an untrimmed or
\* a numeric one; and `rfc new --author Roger --prerequisite <r>.. --title z`
CreateArgs ==
    {[NoCli EXCEPT !.title = <<t>>, !.authors = <<"Roger">>] :
        t \in TitlePool \cup {<<" ", "a">>, <<"7">>}}
    \cup {[NoCli EXCEPT !.title = <<<<"z">>>>, !.authors = <<"Roger">>, !.prerequisite = r] :
        r \in RefLists}
    \cup {[NoCli EXCEPT !.title = <<<<"z">>>>, !.authors = <<"Roger">>,
                        !.supersedes = <<<<"7">>>>, !.superseded_by = <<<<"8">>, <<"7">>>>]}

\* `rfc revise --prerequisite <r>.. 1`
ReviseArgs ==
    {[NoCli EXCEPT !.title_arg = <<<<"1">>>>, !.prerequisite = r] : r \in RefLists}
    \cup {[NoCli EXCEPT !.title_arg = <<<<"1">>>>,
                        !.supersedes = <<<<"7">>>>, !.superseded_by = <<<<"8">>, <<"7">>>>]}

Init ==
    /\ files \in Corpora
    /\ now = 0
    /\ removed = 0
    /\ last = InitLast

NewCommand ==
    /\ last.op = "init"
    /\ \E cli \in CreateArgs : Create(cli, <<>>)

ReviseCommand ==
    /\ last.op = "init"
    /\ \E cli \in ReviseArgs : Revise(cli)

Next == NewCommand \/ ReviseCommand

Spec == Init /\ [][Next]_vars

(***************************************************************************)
(* The title tiers, stated on the documents of a directory                 *)
(***************************************************************************)

IsTitleValue(value) == ~all_ascii_digit(trim(value))

ExactTier(dir, t) ==
    {name \in indexed_names(dir) : dir[name].title = trim(t)}

FoldedTier(dir, t) ==
    {name \in indexed_names(dir) :
        to_ascii_lowercase(trim(dir[name].title)) = to_ascii_lowercase(trim(t))}

SlugTier(dir, t) ==
    {name \in indexed_names(dir) : slugify(dir[name].title) = slugify(trim(t))}

\* The matches of the first tier that has any
FirstTier(dir, t) ==
    IF ExactTier(dir, t) # {} THEN ExactTier(dir, t)
    ELSE IF FoldedTier(dir, t) # {} THEN FoldedTier(dir, t)
    ELSE SlugTier(dir, t)

AmbiguityOf(dir, t) ==
    IF ExactTier(dir, t) # {} THEN "ambiguous_exact"
    ELSE IF FoldedTier(dir, t) # {} THEN "ambiguous_folded"
    ELSE "ambiguous_slug"

IdOf(dir, name) == DecimalValue(dir[name].rfc)

IdTitles(dir, names) == {<<IdOf(dir, name), dir[name].title>> : name \in names}

Listed(matches) == {<<matches[i].id, matches[i].title>> : i \in DOMAIN matches}

\* The last command resolved the references of --prerequisite, some of them
\* titles, against the title index.
ResolvedPrerequisite ==
    /\ last.op \in {"create", "revise"}
    /\ last.out.references.loaded
    /\ last.cli.supersedes = <<>>
    /\ last.cli.superseded_by = <<>>

TitleValues == {i \in DOMAIN last.cli.prerequisite : IsTitleValue(last.cli.prerequisite[i])}

\* The positions of the title references that do not resolve to one document
Unresolved ==
    {i \in TitleValues : Cardinality(FirstTier(last.before, last.cli.prerequisite[i])) # 1}

FirstOf(S) == CHOOSE i \in S : \A j \in S : i <= j

ExpectedId(dir, value) ==
    IF IsTitleValue(value) THEN IdOf(dir, CHOOSE name \in FirstTier(dir, value) : TRUE)
    ELSE DecimalValue(trim(value))

\* C1: when two or more indexed documents match a title reference at the
\* first tier that has any match, the command fails with the ambiguity error
\* of that tier, the error lists exactly the documents of that tier, and
\* nothing is written: no identifier of a looser tier is returned.
C1_AmbiguityIsTerminal ==
    (ResolvedPrerequisite /\ TitleValues # {}) =>
        LET t == last.cli.prerequisite[FirstOf(TitleValues)]
            tier_names == FirstTier(last.before, t)
        IN  Cardinality(tier_names) >= 2 =>
                /\ last.out.err = AmbiguityOf(last.before, t)
                /\ Listed(last.out.matches) = IdTitles(last.before, tier_names)
                /\ Len(last.out.matches) = Cardinality(tier_names)
                /\ files = last.before

\* A reference "A" finds no exact match and two case-insensitive matches.
C1_Witness ==
    /\ ResolvedPrerequisite
    /\ last.cli.prerequisite = <<<<"A">>>>
    /\ ExactTier(last.before, <<"A">>) = {}
    /\ Cardinality(FoldedTier(last.before, <<"A">>)) = 2
    /\ Cardinality(SlugTier(last.before, <<"A">>)) = 2
    /\ last.out.err = "ambiguous_folded"
    /\ Len(last.out.matches) = 2

\* C2: every title reference of a command either fails (no match at any
\* tier: not found; several at the first tier with a match: ambiguous) or
\* yields the identifier of the one document of the first tier with a match;
\* the outcome is a function of the documents and the reference alone, so it
\* is the same for every order in which the directory is read.
C2_ResolutionIsAFunction ==
    (ResolvedPrerequisite /\ TitleValues # {}) =>
        IF Unresolved = {}
        THEN /\ last.out.err = ""
             /\ LET stored == files[last.out.path].prerequisite
                    asked == last.cli.prerequisite
                IN  /\ {stored[i] : i \in DOMAIN stored}
                           = {ExpectedId(last.before, asked[i]) : i \in DOMAIN asked}
                    /\ Len(asked) = 1 => stored = <<ExpectedId(last.before, asked[1])>>
        ELSE LET t == last.cli.prerequisite[FirstOf(Unresolved)]
             IN  /\ last.out.err = IF FirstTier(last.before, t) = {} THEN "not_found"
                                   ELSE AmbiguityOf(last.before, t)
                 /\ files = last.before

\* A reference "a" has one exact match while two documents match it case-
\* insensitively; the exact match is stored.
C2_Witness ==
    /\ ResolvedPrerequisite
    /\ last.op = "create"
    /\ last.cli.prerequisite = <<<<"a">>>>
    /\ Cardinality(ExactTier(last.before, <<"a">>)) = 1
    /\ Cardinality(FoldedTier(last.before, <<"a">>)) = 2
    /\ last.out.err = ""
    /\ files[last.out.path].prerequisite
           = <<IdOf(last.before, CHOOSE name \in ExactTier(last.before, <<"a">>) : TRUE)>>

\* The values of the three reference options of the last command
AllValues ==
    {last.cli.prerequisite[i] : i \in DOMAIN last.cli.prerequisite}
    \cup {last.cli.supersedes[i] : i \in DOMAIN last.cli.supersedes}
    \cup {last.cli.superseded_by[i] : i \in DOMAIN last.cli.superseded_by}

\* The command has nothing but its references to fail on: a create with an
\* author and a title that no document matches, a revise of document 0001.
Acceptable ==
    \/ /\ last.op = "create"
       /\ last.cli.authors # <<>>
       /\ last.cli.title # <<>>
       /\ IsTitleValue(last.cli.title[1])
       /\ SlugTier(last.before, last.cli.title[1]) = {}
    \/ /\ last.op = "revise"
       /\ last.cli.title_arg = <<<<"1">>>>
       /\ Cardinality({name \in Documents(last.before) :
                          SubSeq(name, 1, 4) = <<"0", "0", "0", "1">>}) = 1

StoredAsAsked(stored, asked) ==
    asked # <<>> =>
        {stored[i] : i \in DOMAIN stored} = {DecimalValue(trim(asked[i])) : i \in DOMAIN asked}

\* C3: a command whose references are all numeric succeeds and stores each
\* number in its reference list, whether or not a document carries it.
C3_NumericReferenceUnchecked ==
    (Acceptable /\ AllValues # {} /\ \A v \in AllValues : ~IsTitleValue(v)) =>
        /\ last.out.err = ""
        /\ StoredAsAsked(files[last.out.path].prerequisite, last.cli.prerequisite)
        /\ StoredAsAsked(files[last.out.path].supersedes, last.cli.supersedes)
        /\ StoredAsAsked(files[last.out.path].superseded_by, last.cli.superseded_by)

\* `rfc revise --prerequisite 7 1` in a corpus without a document 7
C3_Witness ==
    /\ last.op = "revise"
    /\ last.cli.prerequisite = <<<<"7">>>>
    /\ \A name \in Documents(last.before) : IdOf(last.before, name) # 7
    /\ last.out.err = ""
    /\ files[last.out.path].prerequisite = <<7>>
    /\ last.before[last.out.path].prerequisite = <<>>

\* C4: a create whose title equals the title of an existing document under
\* ASCII case folding, or has its slug, fails with the conflict error, lists
\* every such document, and writes nothing.
C4_ConflictRefused ==
    (/\ last.op = "create"
     /\ last.cli.title # <<>>
     /\ FoldedTier(last.before, last.cli.title[1])
            \cup SlugTier(last.before, last.cli.title[1]) # {}) =>
        /\ last.out.err \in {"title_exists", "title_conflicts"}
        /\ Listed(last.out.matches)
               = IdTitles(last.before, FoldedTier(last.before, last.cli.title[1])
                                           \cup SlugTier(last.before, last.cli.title[1]))
        /\ files = last.before

(***************************************************************************)
(* SpecCreate: `rfc new` again and again, from an empty corpus.            *)
(***************************************************************************)

InitEmpty ==
    /\ files \in {EmptyDir, TemplateDir}
    /\ now = 0
    /\ removed = 0
    /\ last = InitLast

\* `rfc new [--author Roger] --title <t>`, with or without a git user.name
CreateTitled ==
    \E t \in TitlePool \cup {<<" ", "a">>, <<"7">>}, authors \in {<<>>, <<"Roger">>},
       git \in {<<>>, <<"Git">>} :
        Create([NoCli EXCEPT !.title = <<t>>, !.authors = authors], git)

\* `rfc new --author Roger <t>`
CreatePositional ==
    \E t \in {<<"a">>, <<"c">>, <<>>} :
        Create([NoCli EXCEPT !.title_arg = <<t>>, !.authors = <<"Roger">>], <<>>)

\* `rfc new --author Roger d --title_parts a A`: the parts win over <title>
CreateFromParts ==
    Create([NoCli EXCEPT !.title_parts = <<<<"a">>, <<"A">>>>, !.title_arg = <<<<"d">>>>,
                         !.authors = <<"Roger">>], <<>>)

NextCreate == CreateTitled \/ CreatePositional \/ CreateFromParts

SpecCreate == InitEmpty /\ [][NextCreate]_vars

\* C5: no two documents of the corpus have the same title, the same title
\* under ASCII case folding, or the same slug.
C5_TitlesDistinct ==
    \A m, n \in Documents(files) :
        m # n =>
            /\ files[m].title # files[n].title
            /\ to_ascii_lowercase(trim(files[m].title))
                   # to_ascii_lowercase(trim(files[n].title))
            /\ slugify(files[m].title) # slugify(files[n].title)

(***************************************************************************)
(* SpecAlloc: creates, retitling revisions and manual deletions, from an   *)
(* empty corpus and from a corpus that has reached identifier 9999.        *)
(***************************************************************************)

\* The largest number of IdWidth digits
LastFixedWidthId == Decimal(10 ^ IdWidth - 1)

\* A corpus in which `rfc new` has allocated every four-digit identifier
\* and the earlier document files have been removed by hand: it holds the
\* template and document 9999 as create_rfc wrote it.
AgedDir ==
    WriteFile(TemplateDir, output_name(LastFixedWidthId, <<"b">>),
              render_rfc(LastFixedWidthId, <<"b">>, <<"Roger">>, <<>>, NoCli,
                         NoReferences, 0))

InitAlloc ==
    /\ files \in {EmptyDir, TemplateDir, AgedDir}
    /\ now = 0
    /\ removed = 0
    /\ last = InitLast

\* `rfc new --author Roger --title <t>`
AllocCreate ==
    \E t \in {<<"a">>, <<"c">>, <<>>} :
        Create([NoCli EXCEPT !.title = <<t>>, !.authors = <<"Roger">>], <<>>)

\* `rfc revise --title ! <id>`
AllocRetitle ==
    \E selector \in {<<"1">>, <<"1", "0", "0", "0", "0">>} :
        Revise([NoCli EXCEPT !.title_arg = <<selector>>, !.title = <<<<"!">>>>])

AllocDelete == \E name \in DOMAIN files : Delete(name)

NextAlloc == AllocCreate \/ AllocRetitle \/ AllocDelete

SpecAlloc == InitAlloc /\ [][NextAlloc]_vars

\* The numbers that are the first four characters of a name ending in .md
MdPrefixes(dir) ==
    {DecimalValue(SubSeq(name, 1, 4)) :
        name \in {n \in DOMAIN dir :
                    /\ Len(n) >= 4
                    /\ SubSeq(n, Len(n) - 2, Len(n)) = <<".", "m", "d">>
                    /\ \A i \in 1..4 : n[i] \in DigitSet}}

Created == last.op = "create" /\ last.out.err = ""

\* C6: the identifier that a create allocates is one more than the largest
\* four-digit prefix among the .md files it found (the template counts as
\* 0), so 0001 in a corpus without documents and 0002 after the first
\* document alone; the new file carries it in its name and its metadata.
C6_NextIsMaxPlusOne ==
    Created =>
        /\ DecimalValue(last.out.rfc_id) = Max(MdPrefixes(last.before) \cup {0}) + 1
        /\ files[last.out.path].rfc = last.out.rfc_id
        /\ starts_with(last.out.path, last.out.rfc_id \o <<"-">>)
        /\ Documents(last.before) = {} => last.out.rfc_id = <<"0", "0", "0", "1">>
        /\ (\E name \in DOMAIN last.before :
               /\ Documents(last.before) = {name}
               /\ last.before[name].rfc = <<"0", "0", "0", "1">>)
                   => last.out.rfc_id = <<"0", "0", "0", "2">>

\* After documents 0001 and 0002 were created and 0001 was removed, the
\* corpus holds one document and the next create allocates 0003.
C6_Witness ==
    /\ Created
    /\ removed = 1
    /\ Cardinality(Documents(last.before)) = 1
    /\ last.out.rfc_id = <<"0", "0", "0", "3">>

\* C7: every identifier that a create allocates is four decimal digits, and
\* they are the first four characters of the name of the new file.
C7_FourDigits ==
    Created =>
        /\ Len(last.out.rfc_id) = 4
        /\ \A i \in DOMAIN last.out.rfc_id : last.out.rfc_id[i] \in DigitSet
        /\ SubSeq(last.out.path, 1, 4) = last.out.rfc_id

\* C8: no two documents of the corpus carry the same identifier.
C8_IdsDistinct ==
    \A m, n \in Documents(files) : m # n => files[m].rfc # files[n].rfc

\* C9: a create leaves every file it found as it was; it succeeds only
\* with a path, made of the allocated identifier and the slug of the title,
\* that did not exist, and otherwise changes nothing.
C9_CreateKeepsFiles ==
    last.op = "create" =>
        /\ \A name \in DOMAIN last.before :
               name \in DOMAIN files /\ files[name] = last.before[name]
        /\ last.out.err = "" =>
               /\ last.out.path = last.out.rfc_id \o <<"-">> \o slugify(last.cli.title[1])
                                      \o <<".", "m", "d">>
               /\ last.out.path \notin DOMAIN last.before
               /\ DOMAIN files = DOMAIN last.before \cup {last.out.path}
        /\ last.out.err # "" => files = last.before

\* A create refused because its output path is the file of another document
C9_Witness ==
    /\ last.op = "create"
    /\ last.out.err = "output_exists"
    /\ last.out.path \in DOMAIN last.before
    /\ last.before[last.out.path].title # last.cli.title[1]
    /\ files = last.before

(***************************************************************************)
(* SpecLists: revisions that add authors and agents to document 0001.      *)
(***************************************************************************)

\* The corpus after `rfc new --author <..> [--agent <..>] --title a`
ListedDir(authors, agents) ==
    Written(TemplateDir,
            create_rfc([NoCli EXCEPT !.title = <<<<"a">>>>, !.authors = authors,
                                     !.agents = agents],
                       <<>>, TemplateDir, <<>>, 0))

InitLists ==
    /\ files \in {ListedDir(authors, agents) :
                    authors \in {<<"Roger">>, <<"Roger", "Alice">>},
                    agents \in {<<>>, <<"x">>}}
    /\ now = 0
    /\ removed = 0
    /\ last = InitLast

AuthorRequests ==
    {<<>>, <<"Alice">>, <<"Bob", "Alice">>, <<"Alice", "Roger", "Alice", "Bob">>}

AgentRequests == {<<>>, <<"y", "x", "y">>}

\* `rfc revise [--author <..>].. [--agent <..>].. 1`
ReviseLists ==
    \E authors \in AuthorRequests, agents \in AgentRequests :
        Revise([NoCli EXCEPT !.title_arg = <<<<"1">>>>, !.authors = authors,
                             !.agents = agents])

NextLists == ReviseLists \/ Tick

SpecLists == InitLists /\ [][NextLists]_vars

\* The position at which a value is first asked for
FirstAsked(asked, value) ==
    CHOOSE i \in DOMAIN asked : asked[i] = value /\ \A j \in 1..(i - 1) : asked[j] # value

\* after is previous followed by the asked values that previous lacks, each
\* once, in the order in which they are first asked for
Appended(previous, after, asked) ==
    /\ Len(after) >= Len(previous)
    /\ SubSeq(after, 1, Len(previous)) = previous
    /\ {after[i] : i \in (Len(previous) + 1)..Len(after)}
           = {asked[i] : i \in DOMAIN asked} \ {previous[i] : i \in DOMAIN previous}
    /\ \A i, j \in (Len(previous) + 1)..Len(after) :
           i < j => FirstAsked(asked, after[i]) < FirstAsked(asked, after[j])

Revised == last.op = "revise" /\ last.out.err = ""

\* C10: after a successful revise, authors and agents are each the previous
\* list followed by the requested entries it lacked, once each, in the order
\* of their first request.
C10_ListsAppendUnique ==
    Revised =>
        /\ Appended(last.before[last.out.path].authors, files[last.out.path].authors,
                    last.cli.authors)
        /\ Appended(last.before[last.out.path].agents, files[last.out.path].agents,
                    last.cli.agents)

\* `rfc revise --author Alice --author Roger --author Alice --author Bob
\* --agent y --agent x --agent y 1` on a document of Roger with agent x
C10_Witness ==
    /\ Revised
    /\ last.cli.authors = <<"Alice", "Roger", "Alice", "Bob">>
    /\ last.cli.agents = <<"y", "x", "y">>
    /\ last.before[last.out.path].authors = <<"Roger">>
    /\ last.before[last.out.path].agents = <<"x">>
    /\ files[last.out.path].authors = <<"Roger", "Alice", "Bob">>
    /\ files[last.out.path].agents = <<"x", "y">>

(***************************************************************************)
(* SpecHistory: creates and revisions of document 0001 as time passes.     *)
(***************************************************************************)

InitHistory ==
    /\ files \in {EmptyDir, TemplateDir}
    /\ now = 0
    /\ removed = 0
    /\ last = InitLast

\* `rfc new --author Roger --title <t>`
HistoryCreate ==
    \E t \in {<<"a">>, <<"c">>} :
        Create([NoCli EXCEPT !.title = <<t>>, !.authors = <<"Roger">>], <<>>)

\* `rfc revise 1` and `rfc revise --author Alice 1`
HistoryRevise ==
    \E authors \in {<<>>, <<"Alice">>} :
        Revise([NoCli EXCEPT !.title_arg = <<<<"1">>>>, !.authors = authors])

NextHistory == HistoryCreate \/ HistoryRevise \/ Tick

SpecHistory == InitHistory /\ [][NextHistory]_vars

\* C11: a successful revise appends one entry "Revised" to the history and
\* leaves the earlier entries as they were; a create writes the one entry
\* "Initial draft"; so every history is "Initial draft" followed by one
\* "Revised" for each revision.
C11_HistoryAppendOnly ==
    /\ Revised =>
           files[last.out.path].revision
               = last.before[last.out.path].revision
                     \o <<[date |-> last.at, change |-> "Revised"]>>
    /\ Created =>
           files[last.out.path].revision = <<[date |-> last.at, change |-> "Initial draft"]>>
    /\ \A name \in Documents(files) :
           /\ Len(files[name].revision) >= 1
           /\ \A i \in DOMAIN files[name].revision :
                  files[name].revision[i].change
                      = IF i = 1 THEN "Initial draft" ELSE "Revised"

\* A second revision that asks for no change, a second after the first
C11_Witness ==
    /\ Revised
    /\ last.cli.authors = <<>>
    /\ last.at = 1
    /\ files[last.out.path].revision
           = <<[date |-> 0, change |-> "Initial draft"], [date |-> 0, change |-> "Revised"],
               [date |-> 1, change |-> "Revised"]>>
    /\ [files[last.out.path] EXCEPT !.revision = <<>>, !.last_updated = 0]
           = [last.before[last.out.path] EXCEPT !.revision = <<>>, !.last_updated = 0]

\* C12: the last_updated of every document is the date of the last entry of
\* its history.
C12_LastUpdatedIsLastEntry ==
    \A name \in Documents(files) :
        /\ files[name].revision # <<>>
        /\ files[name].last_updated
               = files[name].revision[Len(files[name].revision)].date

\* Two documents, the first created at 0 and revised at 1
C12_Witness ==
    /\ Revised
    /\ Cardinality(Documents(files)) = 2
    /\ files[last.out.path].created = 0
    /\ files[last.out.path].last_updated = 1
    /\ Len(files[last.out.path].revision) = 2

(***************************************************************************)
(* SpecFields: revisions of the scalar fields and the reference lists of   *)
(* document 0002, titled c, in a corpus that also holds document 0001.     *)
(***************************************************************************)

\* The corpus after `rfc new --author Roger [--discussion D0]
\* [--prerequisite 7] --title a` and `rfc new --author Roger --title c`
FieldsDir(discussion, prerequisite) ==
    Written(ListedDir(<<"Roger">>, <<>>),
            create_rfc([NoCli EXCEPT !.title = <<<<"c">>>>, !.authors = <<"Roger">>,
                                     !.discussion = discussion,
                                     !.prerequisite = prerequisite],
                       <<>>, ListedDir(<<"Roger">>, <<>>),
                       AnyOrder(ListedDir(<<"Roger">>, <<>>)), 0))

InitFields ==
    /\ files \in {FieldsDir(discussion, prerequisite) :
                    discussion \in {<<>>, <<"D0">>},
                    prerequisite \in {<<>>, <<<<"7">>>>}}
    /\ now = 0
    /\ removed = 0
    /\ last = InitLast

\* The options of `rfc revise <options> <selector>`
FieldRequests ==
    {NoCli,
     [NoCli EXCEPT !.title = <<<<"b">>>>],
     [NoCli EXCEPT !.title_parts = <<<<"x">>, <<"y">>>>],
     [NoCli EXCEPT !.discussion = <<"D">>],
     [NoCli EXCEPT !.discussion = <<"E">>, !.tracking_issue = <<"T">>],
     [NoCli EXCEPT !.prerequisite = <<<<"9">>, <<"1">>, <<"9">>>>],
     [NoCli EXCEPT !.prerequisite = <<<<"a">>>>, !.supersedes = <<<<"8">>>>],
     [NoCli EXCEPT !.superseded_by = <<<<"a">>, <<"1">>, <<"9">>>>]}

\* Document 0002 is revised, selected by its number or by its slug
ReviseFields ==
    \E request \in FieldRequests, selector \in {<<"2">>, <<"c">>} :
        Revise([request EXCEPT !.title_arg = <<selector>>])

NextFields == ReviseFields

SpecFields == InitFields /\ [][NextFields]_vars

Supplied(option, stored) == IF option # <<>> THEN option ELSE stored

\* C13: after a successful revise, discussion and tracking_issue hold the
\* value of the option if it was given and the stored value otherwise; the
\* title holds the value of --title, else the joined --title_parts, else the
\* stored title; the positional argument never becomes the title.
C13_ScalarsReplaced ==
    Revised =>
        /\ files[last.out.path].discussion
               = Supplied(last.cli.discussion, last.before[last.out.path].discussion)
        /\ files[last.out.path].tracking_issue
               = Supplied(last.cli.tracking_issue, last.before[last.out.path].tracking_issue)
        /\ files[last.out.path].title
               = IF last.cli.title # <<>> THEN last.cli.title[1]
                 ELSE IF last.cli.title_parts # <<>> THEN join_underscore(last.cli.title_parts)
                 ELSE last.before[last.out.path].title

\* `rfc revise --discussion D c` on the document titled c whose stored
\* discussion is D0: the discussion is replaced and the title stays c.
C13_Witness ==
    /\ Revised
    /\ last.cli.title_arg = <<<<"c">>>>
    /\ last.cli.discussion = <<"D">>
    /\ last.cli.title = <<>>
    /\ last.before[last.out.path].discussion = <<"D0">>
    /\ files[last.out.path].discussion = <<"D">>
    /\ files[last.out.path].title = <<"c">>
    /\ files[last.out.path].tracking_issue = last.before[last.out.path].tracking_issue

\* The identifiers that the values of a reference option resolve to
AskedIds(dir, asked) == [i \in DOMAIN asked |-> ExpectedId(dir, asked[i])]

ListReplaced(previous, after, dir, asked) ==
    IF asked = <<>> THEN after = previous
    ELSE Appended(<<>>, after, AskedIds(dir, asked))

\* C14: after a successful revise, a reference field for which the request
\* gives values holds the identifiers they resolve to, each once, in the
\* order of their first occurrence, and nothing of the list stored before;
\* a field for which the request gives no value keeps its list.
C14_ReferencesReplaced ==
    Revised =>
        /\ ListReplaced(last.before[last.out.path].prerequisite,
                        files[last.out.path].prerequisite, last.before,
                        last.cli.prerequisite)
        /\ ListReplaced(last.before[last.out.path].supersedes,
                        files[last.out.path].supersedes, last.before, last.cli.supersedes)
        /\ ListReplaced(last.before[last.out.path].superseded_by,
                        files[last.out.path].superseded_by, last.before,
                        last.cli.superseded_by)

\* `rfc revise --prerequisite 9 --prerequisite 1 --prerequisite 9 2` on a
\* document whose stored prerequisite is [1] and whose supersedes is [8]
C14_Witness ==
    /\ Revised
    /\ last.cli.prerequisite = <<<<"9">>, <<"1">>, <<"9">>>>
    /\ last.before[last.out.path].prerequisite = <<1>>
    /\ last.before[last.out.path].supersedes = <<8>>
    /\ files[last.out.path].prerequisite = <<9, 1>>
    /\ files[last.out.path].supersedes = <<8>>

(***************************************************************************)
(* SpecFailures: one command on a corpus in which document 0002 has been   *)
(* edited by hand into a state that a step of the commands rejects.        *)
(***************************************************************************)

\* The states of a document file after an edit by hand: sound, without the
\* opening `+++`, without the closing one, with metadata that is not TOML,
\* with `authors` or `agents` holding a string, with `revision` holding no
\* array of tables, without `rfc`, without `title`.
DocumentStates ==
    {"rfc", "no_frontmatter", "unterminated", "bad_toml", "authors_not_list",
     "agents_not_list", "revision_not_tables", "no_rfc", "no_title"}

Edited(doc, state) ==
    [doc EXCEPT !.kind = state,
                !.rfc = IF state = "no_rfc" THEN <<>> ELSE @,
                !.title = IF state = "no_title" THEN <<>> ELSE @]

EditedDir(state) ==
    WriteFile(FieldsDir(<<>>, <<>>), output_name(format_04(2), <<"c">>),
              Edited(FieldsDir(<<>>, <<>>)[output_name(format_04(2), <<"c">>)], state))

InitFailures ==
    /\ files \in {EditedDir(state) : state \in DocumentStates}
    /\ now = 0
    /\ removed = 0
    /\ last = InitLast

\* `rfc new --author Roger [--prerequisite q] --title <t>`
FailingCreate ==
    /\ last.op = "init"
    /\ \E t \in {<<"a">>, <<"z">>}, prerequisite \in {<<>>, <<<<"q">>>>} :
           Create([NoCli EXCEPT !.title = <<t>>, !.authors = <<"Roger">>,
                                !.prerequisite = prerequisite], <<>>)

\* `rfc revise [--author Alice] [--agent x] [--title b] [--prerequisite <r>]
\* <selector>`
FailingRevise ==
    /\ last.op = "init"
    /\ \E selector \in {<<"1">>, <<"2">>, <<"9">>}, people \in {<<>>, <<"Alice">>},
          title \in {<<>>, <<<<"b">>>>}, prerequisite \in {<<>>, <<<<"q">>>>, <<<<"a">>>>} :
           Revise([NoCli EXCEPT !.title_arg = <<selector>>, !.authors = people,
                                !.agents = people, !.title = title,
                                !.prerequisite = prerequisite])

NextFailures == FailingCreate \/ FailingRevise

SpecFailures == InitFailures /\ [][NextFailures]_vars

\* C15: a create or a revise that fails leaves every file of the directory
\* as it was and adds none.
C15_FailureWritesNothing ==
    (last.op \in {"create", "revise"} /\ last.out.err # "") => files = last.before

\* A revise that has a new author to add fails at the last step, the read
\* of the title.
C15_Witness ==
    /\ last.op = "revise"
    /\ last.cli.authors = <<"Alice">>
    /\ last.out.err = "missing_title_field"
    /\ files = last.before

(***************************************************************************)
(* SpecBodies: one revise of document 0001 whose body, the text after the  *)
(* closing `+++` line, has been edited by hand.                            *)
(***************************************************************************)

MaxPieces == 4

\* The pieces an edited body is made of: a line end, a word, a heading
Pieces == {<<"\n">>, <<"x">>, HeadingPrefix \o <<"1">>}

RECURSIVE Flatten(_)
Flatten(texts) == IF texts = <<>> THEN <<>> ELSE Head(texts) \o Flatten(Tail(texts))

Bodies == {Flatten(texts) : texts \in UNION {[1..n -> Pieces] : n \in 0..MaxPieces}}

BodyDir(body) ==
    WriteFile(ListedDir(<<"Roger">>, <<>>), output_name(format_04(1), <<"a">>),
              [ListedDir(<<"Roger">>, <<>>)[output_name(format_04(1), <<"a">>)]
                   EXCEPT !.body = body])

InitBodies ==
    /\ files \in {BodyDir(body) : body \in Bodies}
    /\ now = 0
    /\ removed = 0
    /\ last = InitLast

\* `rfc revise [--title b] 1`
ReviseBody ==
    /\ last.op = "init"
    /\ \E title \in {<<>>, <<<<"b">>>>} :
           Revise([NoCli EXCEPT !.title_arg = <<<<"1">>>>, !.title = title])

NextBodies == ReviseBody

SpecBodies == InitBodies /\ [][NextBodies]_vars

\* The end of the text of a document file: the closing `+++` line and the
\* body
TextEnd(doc) == <<"+", "+", "+", "\n">> \o doc.body

EndsWithOneNewline(text) ==
    /\ ends_with(text, <<"\n">>)
    /\ ~ends_with(text, <<"\n", "\n">>)

\* C16: the text that a revise writes ends with exactly one newline,
\* whatever the number of newlines the body ended with before.
C16_OneFinalNewline ==
    (last.op = "revise" /\ last.out.err = "") =>
        EndsWithOneNewline(TextEnd(files[last.out.path]))

(***************************************************************************)
(* Frontmatter of a raw text (revise.rs, reference.rs)                     *)
(***************************************************************************)

\* str::replace("\r\n", "\n")
RECURSIVE replace_crlf(_)
replace_crlf(s) ==
    IF s = <<>> THEN <<>>
    ELSE IF starts_with(s, <<"\r", "\n">>) THEN <<"\n">> \o replace_crlf(SubSeq(s, 3, Len(s)))
    ELSE <<Head(s)>> \o replace_crlf(Tail(s))

\* str::find: the first position at which pat occurs in s, counted from 1;
\* 0 when there is none
find(s, pat) ==
    IF \E i \in 1..(Len(s) - Len(pat) + 1) : SubSeq(s, i, i + Len(pat) - 1) = pat
    THEN CHOOSE i \in 1..(Len(s) - Len(pat) + 1) :
             /\ SubSeq(s, i, i + Len(pat) - 1) = pat
             /\ \A j \in 1..(i - 1) : SubSeq(s, j, j + Len(pat) - 1) # pat
    ELSE 0

OpeningLine == <<"+", "+", "+", "\n">>
ClosingLine == <<"\n", "+", "+", "+", "\n">>
ClosingMark == <<"\n", "+", "+", "+">>

NoSplit == [err |-> "", frontmatter |-> <<>>, body |-> <<>>]

strip_one_newline(body) == IF starts_with(body, <<"\n">>) THEN Tail(body) ELSE body

\* The two searches of split_frontmatter in the text after the opening line
split_rest(rest, line, mark) ==
    IF line # 0
    THEN [NoSplit EXCEPT !.frontmatter = SubSeq(rest, 1, line - 1),
                         !.body = SubSeq(rest, line + 5, Len(rest))]
    ELSE IF mark # 0
    THEN [NoSplit EXCEPT !.frontmatter = SubSeq(rest, 1, mark - 1),
                         !.body = strip_one_newline(SubSeq(rest, mark + 4, Len(rest)))]
    ELSE [NoSplit EXCEPT !.err = "missing_closing_marker"]

split_normalized(normalized) ==
    IF ~starts_with(normalized, OpeningLine)
    THEN [NoSplit EXCEPT !.err = "missing_opening_marker"]
    ELSE split_rest(SubSeq(normalized, 5, Len(normalized)),
                    find(SubSeq(normalized, 5, Len(normalized)), ClosingLine),
                    find(SubSeq(normalized, 5, Len(normalized)), ClosingMark))

\* split_frontmatter
split_frontmatter(markdown) == split_normalized(replace_crlf(markdown))

\* extract_frontmatter: the same searches, the metadata block alone
extract_frontmatter(markdown) == [split_frontmatter(markdown) EXCEPT !.body = <<>>]

(***************************************************************************)
(* SpecSplit: the frontmatter of drawn raw texts                           *)
(***************************************************************************)

MaxFragments == 5

Fragments == {<<"+", "+", "+">>, <<"\n">>, <<"t">>, <<"\r", "\n">>}

RawTexts == {Flatten(texts) : texts \in UNION {[1..n -> Fragments] : n \in 0..MaxFragments}}

InitSplit ==
    /\ files = EmptyDir
    /\ now = 0
    /\ removed = 0
    /\ last \in {[InitLast EXCEPT !.op = "text", !.before = markdown] : markdown \in RawTexts}

\* revise_rfc splits the text it has read
Split ==
    /\ last.op = "text"
    /\ last' = [last EXCEPT !.op = "split_frontmatter", !.out = split_frontmatter(last.before)]
    /\ UNCHANGED <<files, now, removed>>

\* The title index extracts the metadata block of each file
Extract ==
    /\ last.op = "text"
    /\ last' = [last EXCEPT !.op = "extract_frontmatter",
                            !.out = extract_frontmatter(last.before)]
    /\ UNCHANGED <<files, now, removed>>

NextSplit == Split \/ Extract

SpecSplit == InitSplit /\ [][NextSplit]_vars

\* The positions in rest at which a line consisting exactly of `+++` begins:
\* at the start of rest or after a newline, and followed by a newline or by
\* the end of rest
ClosingLines(rest) ==
    {p \in 1..(Len(rest) - 2) :
        /\ SubSeq(rest, p, p + 2) = <<"+", "+", "+">>
        /\ (p = 1 \/ rest[p - 1] = "\n")
        /\ (p + 2 = Len(rest) \/ rest[p + 3] = "\n")}

FirstClosingLine(rest) == CHOOSE p \in ClosingLines(rest) : \A q \in ClosingLines(rest) : p <= q

\* The split of rest at the `+++` line that begins at p
SplitAt(rest, p) ==
    [NoSplit EXCEPT !.frontmatter = SubSeq(rest, 1, p - 2),
                    !.body = SubSeq(rest, p + 4, Len(rest))]

ExpectedSplit(normalized, rest) ==
    IF ~starts_with(normalized, OpeningLine) THEN NoSplit
    ELSE IF ClosingLines(rest) = {} THEN NoSplit
    ELSE SplitAt(rest, FirstClosingLine(rest))

Splits(normalized, rest, out) ==
    IF starts_with(normalized, OpeningLine) /\ ClosingLines(rest) # {}
    THEN /\ out.err = ""
         /\ out.frontmatter = ExpectedSplit(normalized, rest).frontmatter
         /\ last.op = "split_frontmatter" => out.body = ExpectedSplit(normalized, rest).body
    ELSE out.err # ""

\* C17: extraction fails unless the text begins with the line `+++` and a
\* later line consists exactly of `+++` (followed by a newline or ending the
\* text); otherwise the metadata block is the text before that line and the
\* body the text after it.
C17_SplitAtClosingLine ==
    last.op \in {"split_frontmatter", "extract_frontmatter"} =>
        Splits(replace_crlf(last.before),
               SubSeq(replace_crlf(last.before), 5, Len(replace_crlf(last.before))),
               last.out)

(***************************************************************************)
(* SpecHeading: the heading of drawn bodies rewritten                      *)
(***************************************************************************)

InitHeading ==
    /\ files = EmptyDir
    /\ now = 0
    /\ removed = 0
    /\ last \in {[op |-> "body", body |-> body, heading |-> <<>>, out |-> <<>>] :
                     body \in Bodies}

\* revise_rfc rewrites the heading of the body it has split off
RewriteHeading ==
    /\ last.op = "body"
    /\ \E title \in {<<"a">>, <<"b">>} :
           last' = [last EXCEPT !.op = "rewrite_rfc_heading",
                                !.heading = heading_line(format_04(1), title),
                                !.out = rewrite_rfc_heading(last.body, format_04(1), title)]
    /\ UNCHANGED <<files, now, removed>>

NextHeading == RewriteHeading

SpecHeading == InitHeading /\ [][NextHeading]_vars

IsHeading(line) == starts_with(line, HeadingPrefix)

Headings(ls) == {i \in DOMAIN ls : IsHeading(ls[i])}

FirstHeading(ls) == CHOOSE i \in Headings(ls) : \A j \in Headings(ls) : i <= j

RECURSIVE DropLeadingBlank(_)
DropLeadingBlank(ls) ==
    IF ls # <<>> /\ Head(ls) = <<>> THEN DropLeadingBlank(Tail(ls)) ELSE ls

\* The heading replaced in place: the same number of lines, the first
\* heading line replaced, every other line as it was
ReplacedInPlace(before, after, heading) ==
    /\ Len(after) = Len(before)
    /\ after[FirstHeading(before)] = heading
    /\ \A i \in DOMAIN before : i # FirstHeading(before) => after[i] = before[i]
    /\ Cardinality(Headings(after)) = Cardinality(Headings(before))

\* The heading put first: the heading, one blank line, the lines of the
\* body from its first line that is not blank
PutFirst(before, after, heading) ==
    /\ Len(after) >= 2
    /\ after[1] = heading
    /\ after[2] = <<>>
    /\ SubSeq(after, 3, Len(after)) = DropLeadingBlank(before)
    /\ Len(after) >= 3 => after[3] # <<>>

HeadingRewritten(before, after, heading) ==
    IF Headings(before) # {} THEN ReplacedInPlace(before, after, heading)
    ELSE PutFirst(before, after, heading)

\* C18: a body with a heading line has that line replaced by the new
\* heading, every other line and the number of heading lines staying as
\* they were; a body with no heading line gets the new heading put before
\* it with exactly one blank line between the two.
C18_HeadingRewritten ==
    last.op = "rewrite_rfc_heading" =>
        /\ ends_with(last.out, <<"\n">>)
        /\ HeadingRewritten(lines(last.body), lines(last.out), last.heading)

\* A body of two heading lines has been rewritten: the first is the new
\* heading, the second is as it was.
C18_Witness ==
    /\ last.op = "rewrite_rfc_heading"
    /\ last.body = Flatten(<<HeadingPrefix \o <<"1">>, <<"\n">>, HeadingPrefix \o <<"1">>,
                             <<"x">>>>)
    /\ lines(last.out) = <<last.heading, HeadingPrefix \o <<"1", "x">>>>

(***************************************************************************)
(* SpecSlug: slugify on drawn titles, and on its own result                *)
(***************************************************************************)

MaxLen == 3

\* The pieces a drawn title is made of: a word that spells the fallback,
\* letters, a digit, the three separators, a dropped character, and a run of
\* separators with a dropped character in it
TitlePieces ==
    {<<"U">> \o Tail(Untitled), <<"a">>, <<"B">>, <<"1">>, <<" ">>, <<"-">>, <<"_">>,
     <<"!">>, <<" ", "!", "_">>}

Titles == {Flatten(texts) : texts \in UNION {[1..n -> TitlePieces] : n \in 0..MaxLen}}

InitSlug ==
    /\ files = EmptyDir
    /\ now = 0
    /\ removed = 0
    /\ last \in {[op |-> "title", input |-> t, out |-> <<>>, again |-> <<>>] : t \in Titles}

Slugify ==
    /\ last.op = "title"
    /\ last' = [last EXCEPT !.op = "slugify", !.out = slugify(last.input)]
    /\ UNCHANGED <<files, now, removed>>

SlugifyAgain ==
    /\ last.op = "slugify"
    /\ last' = [last EXCEPT !.op = "slugify_again", !.again = slugify(last.out)]
    /\ UNCHANGED <<files, now, removed>>

NextSlug == Slugify \/ SlugifyAgain

SpecSlug == InitSlug /\ [][NextSlug]_vars

\* C19: slugify applied to its own result gives that result again, the
\* fallback `untitled` included.
C19_SlugifyIdempotent ==
    last.op = "slugify_again" => last.again = last.out

\* A title of dropped characters alone has given the fallback, twice.
C19_Witness ==
    /\ last.op = "slugify_again"
    /\ last.input = <<"!", "-">>
    /\ last.out = Untitled
    /\ last.again = Untitled

IsSeparator(ch) == is_ascii_whitespace(ch) \/ ch = "-" \/ ch = "_"

IsKept(ch) == is_ascii_alphanumeric(ch) \/ IsSeparator(ch)

IsSlugChar(ch) == ch \in Range(LowerChars) \cup DigitSet \cup {"-"}

IsHyphen(ch) == ch = "-"

\* The runs of separators between two letters or digits of a text from
\* which the dropped characters have been taken out: a run ends where a
\* letter or digit follows a separator
InnerRuns(kept) ==
    Cardinality({i \in 2..Len(kept) :
                    /\ is_ascii_alphanumeric(kept[i])
                    /\ IsSeparator(kept[i - 1])
                    /\ \E j \in 1..(i - 1) : is_ascii_alphanumeric(kept[j])})

WellFormedSlug(out) ==
    /\ out # <<>>
    /\ \A i \in DOMAIN out : IsSlugChar(out[i])
    /\ out[1] # "-"
    /\ out[Len(out)] # "-"
    /\ \A i \in 1..(Len(out) - 1) : ~(out[i] = "-" /\ out[i + 1] = "-")

OneHyphenPerRun(input, out) ==
    out # Untitled => Len(SelectSeq(out, IsHyphen)) = InnerRuns(SelectSeq(input, IsKept))

HasAlphanumeric(input) == \E i \in DOMAIN input : is_ascii_alphanumeric(input[i])

\* C20 as stated: a well-formed slug with one hyphen for every run of
\* separators, and `untitled` exactly when the title holds no ASCII letter
\* or digit.
C20_UntitledOnlyAsFallback ==
    last.op = "slugify" =>
        /\ WellFormedSlug(last.out)
        /\ OneHyphenPerRun(last.input, last.out)
        /\ last.out = Untitled <=> ~HasAlphanumeric(last.input)

\* C20 amended: a well-formed slug with one hyphen for every run of
\* separators; `untitled` when the title holds no ASCII letter or digit, and
\* otherwise the letters and digits of the title, lower-cased, in their
\* order, which may themselves spell `untitled`.
C20_SlugShape ==
    last.op = "slugify" =>
        /\ WellFormedSlug(last.out)
        /\ HasAlphanumeric(last.input) =>
               /\ SelectSeq(last.out, is_ascii_alphanumeric)
                      = to_ascii_lowercase(SelectSeq(last.input, is_ascii_alphanumeric))
               /\ Len(SelectSeq(last.out, IsHyphen))
                      = InnerRuns(SelectSeq(last.input, IsKept))
        /\ ~HasAlphanumeric(last.input) => last.out = Untitled

\* A run of separators with a dropped character in it, between two letters,
\* has given a single hyphen.
C20_Witness ==
    /\ last.op = "slugify"
    /\ last.input = <<"a", " ", "!", "_", "B">>
    /\ last.out = <<"a", "-", "b">>

(***************************************************************************)
(* Reference lists, resolved and deduplicated (checked under Spec)         *)
(***************************************************************************)

\* The identifiers that the values of --prerequisite stand for, in the order
\* of the command line
AskedPrerequisite == [i \in DOMAIN last.cli.prerequisite |->
                         ExpectedId(last.before, last.cli.prerequisite[i])]

FirstIndex(seq, value) == FirstOf({i \in DOMAIN seq : seq[i] = value})

NoRepeats(seq) == \A i, j \in DOMAIN seq : seq[i] = seq[j] => i = j

InFirstSeenOrder(asked, kept) ==
    \A i, j \in DOMAIN kept : i < j => FirstIndex(asked, kept[i]) < FirstIndex(asked, kept[j])

\* C21: the resolved list of a successful command repeats no identifier,
\* holds exactly the identifiers its values stand for (ids and titles
\* alike), in the order of their first occurrence, and deduplicating it
\* again changes nothing.
C21_ResolvedListDeduplicated ==
    (last.op \in {"create", "revise"} /\ last.out.err = "") =>
        /\ NoRepeats(last.out.references.prerequisite)
        /\ Range(last.out.references.prerequisite) = Range(AskedPrerequisite)
        /\ InFirstSeenOrder(AskedPrerequisite, last.out.references.prerequisite)
        /\ dedupe(last.out.references.prerequisite) = last.out.references.prerequisite

\* The id 1 and a title of document 1 have been resolved to the one
\* identifier 1.
C21_Witness ==
    /\ last.op \in {"create", "revise"}
    /\ last.out.err = ""
    /\ last.cli.prerequisite = <<<<"1">>, <<" ", "a">>>>
    /\ last.out.references.prerequisite = <<1>>

\* The id 7 given twice around the id 1 has been kept once, first.
C21_WitnessOrder ==
    /\ last.op \in {"create", "revise"}
    /\ last.out.err = ""
    /\ last.cli.prerequisite = <<<<"7">>, <<"1">>, <<"7">>>>
    /\ last.out.references.prerequisite = <<7, 1>>

(***************************************************************************)
(* The title index of a corpus with a damaged file (checked under          *)
(* SpecFailures)                                                           *)
(***************************************************************************)

\* Some indexed file of the directory has no opening or no closing `+++`,
\* metadata that is not TOML, no `rfc` or no `title`
CorruptCorpus(dir) ==
    \E name \in indexed_names(dir) :
        dir[name].kind \in {"no_frontmatter", "unterminated", "bad_toml", "no_rfc", "no_title"}

HasTitleReference(cli) ==
    \E i \in DOMAIN cli.prerequisite : IsTitleValue(cli.prerequisite[i])

\* The outcomes of a resolution against an index: an answer, no match, or
\* several matches
ResolutionOutcomes ==
    {"", "not_found", "ambiguous_exact", "ambiguous_folded", "ambiguous_slug",
     "title_exists", "title_conflicts"}

TwiceBodies ==
    {<<>>, <<"x">>, <<"\n", "\n", "x", "\n", "\n">>,
     HeadingPrefix \o <<"1", "\n">> \o HeadingPrefix \o <<"1">>}

WithBody(dir, name, body) == WriteFile(dir, name, [dir[name] EXCEPT !.body = body])

TwiceCorpora ==
    {CorpusOf(titles) : titles \in {<<<<"a">>>>, <<<<"a">>, <<"A">>>>, <<<<"a">>, <<"c">>>>}}

InitTwice ==
    /\ files \in TwiceCorpora
             \cup {WithBody(dir, output_name(format_04(1), FirstTitle(1)), body) :
                      dir \in TwiceCorpora, body \in TwiceBodies}
    /\ now = 0
    /\ removed = 0
    /\ last = InitLast

\* `rfc revise [--author Alice] [--title z] [--prerequisite <r>] 1`
ReviseOnce ==
    /\ last.op = "init"
    /\ \E authors \in {<<>>, <<"Alice">>}, title \in {<<>>, <<<<"z">>>>},
          prerequisite \in {<<>>, <<<<"a">>>>, <<<<"2">>>>} :
           Revise([NoCli EXCEPT !.title_arg = <<<<"1">>>>, !.authors = authors,
                                !.title = title, !.prerequisite = prerequisite])

\* The same command line run again after it has succeeded
ReviseAgain ==
    /\ last.op = "revise"
    /\ last.out.err = ""
    /\ \E out \in {revise_rfc(last.cli, files, order, now) :
                      order \in Orders(indexed_names(files))} :
        /\ files' = Written(files, out)
        /\ last' = [op |-> "revise_again", cli |-> last.cli, git |-> <<>>, before |-> files,
                    at |-> now, out |-> out]
        /\ UNCHANGED <<now, removed>>

NextTwice == ReviseOnce \/ ReviseAgain \/ Tick

SpecTwice == InitTwice /\ [][NextTwice]_vars

\* The fields of a document other than last_updated and the history
Content(doc) ==
    [title |-> doc.title, authors |-> doc.authors, agents |-> doc.agents,
     discussion |-> doc.discussion, tracking_issue |-> doc.tracking_issue,
     prerequisite |-> doc.prerequisite, supersedes |-> doc.supersedes,
     superseded_by |-> doc.superseded_by, body |-> doc.body]

\* C23: a revise run a second time with the same command line leaves the
\* title, the lists, the scalar fields, the reference lists and the body of
\* every document as the first run left them.
C23_SecondReviseSameContent ==
    last.op = "revise_again" =>
        \A name \in DOMAIN files : Content(files[name]) = Content(last.before[name])

\* C23, the second run as a command: it succeeds as the first did.
C23_SecondReviseSucceeds ==
    last.op = "revise_again" => last.out.err = ""

(***************************************************************************)
(* The frame of revise (checked under SpecTwice)                           *)
(***************************************************************************)

\* C24: a revise leaves the set of files as it was and every file other
\* than the one it located unchanged; the located file keeps its name, its
\* rfc identifier and its created field, whatever the new title.
C24_ReviseFrame ==
    last.op \in {"revise", "revise_again"} =>
        /\ DOMAIN files = DOMAIN last.before
        /\ \A name \in DOMAIN files : name # last.out.path => files[name] = last.before[name]
        /\ last.out.err = "" =>
               /\ last.out.path \in DOMAIN last.before
               /\ files[last.out.path].rfc = last.before[last.out.path].rfc
               /\ files[last.out.path].created = last.before[last.out.path].created

\* Document 0001, created as `b`, has been given the title `z` at a later
\* time and is still the file 0001-b.md, created at 0.
C24_Witness ==
    /\ last.op = "revise"
    /\ last.out.err = ""
    /\ last.at = 1
    /\ last.out.path = output_name(format_04(1), <<"b">>)
    /\ files[last.out.path].title = <<"z">>
    /\ files[last.out.path].last_updated = 1
    /\ files[last.out.path].created = 0
    /\ output_name(format_04(1), <<"z">>) \notin DOMAIN files

(***************************************************************************)
(* SpecNumeric: one command with a numeric title or selector               *)
(***************************************************************************)

NumericCorpora ==
    {CorpusOf(titles) :
        titles \in UNION {[1..n -> {<<"a">>, <<"c">>}] : n \in 0..(MaxDocs - 1)}}

InitNumeric ==
    /\ files \in NumericCorpora
    /\ now = 0
    /\ removed = 0
    /\ last = InitLast

\* `rfc new --author Roger [--title <t>] [--title_parts <p>..] [<positional>]`
NumericCreate ==
    /\ last.op = "init"
    /\ \E title \in {<<>>, <<<<"7">>>>, <<<<" ", "7", " ">>>>, <<<<"z">>>>},
          title_parts \in {<<>>, <<<<"7">>>>, <<<<"7">>, <<"8">>>>},
          title_arg \in {<<>>, <<<<"7">>>>, <<<<"7", "z">>>>} :
           Create([NoCli EXCEPT !.title = title, !.title_parts = title_parts,
                                !.title_arg = title_arg, !.authors = <<"Roger">>], <<>>)

\* `rfc revise [--author Alice] <selector>`
NumericRevise ==
    /\ last.op = "init"
    /\ \E selector \in {<<"1">>, <<"2">>, <<"0", "2">>, <<"0", "0", "0", "0", "1">>, <<"9">>,
                        <<"0">>},
          authors \in {<<>>, <<"Alice">>} :
           Revise([NoCli EXCEPT !.title_arg = <<selector>>, !.authors = authors])

NextNumeric == NumericCreate \/ NumericRevise

SpecNumeric == InitNumeric /\ [][NextNumeric]_vars

\* --title, else the parts of --title_parts joined by `_`, else the
\* positional argument; an Option
TitleByPrecedence(cli) ==
    IF cli.title # <<>> THEN cli.title
    ELSE IF Len(cli.title_parts) = 1 THEN <<cli.title_parts[1]>>
    ELSE IF Len(cli.title_parts) = 2
    THEN <<cli.title_parts[1] \o <<"_">> \o cli.title_parts[2]>>
    ELSE cli.title_arg

OnlyDigits(text) == text # <<>> /\ \A i \in DOMAIN text : text[i] \in DigitSet

\* The files other than the template whose name starts with the id of the
\* selector, written with four digits at least
NamedById(dir, selector) ==
    {name \in DOMAIN dir :
        /\ name # TemplateName
        /\ starts_with(name, format_04(DecimalValue(selector)))}

CreateRejectsNumeric ==
    (last.op = "create" /\ TitleByPrecedence(last.cli) # <<>>) =>
        /\ last.out.err = "numeric_title" <=> OnlyDigits(trim(TitleByPrecedence(last.cli)[1]))
        /\ last.out.err = "numeric_title" => files = last.before

ReviseSelectsById ==
    (last.op = "revise" /\ OnlyDigits(last.cli.title_arg[1])) =>
        IF Cardinality(NamedById(last.before, last.cli.title_arg[1])) = 1
        THEN last.out.err = "" /\ last.out.path \in NamedById(last.before, last.cli.title_arg[1])
        ELSE last.out.err # "" /\ files = last.before

\* C25: a create whose title, taken by precedence, is all digits once
\* trimmed fails as numeric-only and writes nothing, and no other create
\* fails so; a revise with an all-digit selector takes the one file whose
\* name starts with the id written with four digits.
C25_NumericTitleAndSelector == CreateRejectsNumeric /\ ReviseSelectsById

\* A revise with the selector `02` has taken document 0002.
C25_Witness ==
    /\ last.op = "revise"
    /\ last.cli.title_arg = <<<<"0", "2">>>>
    /\ last.out.err = ""
    /\ starts_with(last.out.path, format_04(2))
    /\ files[last.out.path].revision # last.before[last.out.path].revision

\* A create whose --title is ` 7 ` has been rejected although a positional
\* title was given too.
C25_WitnessCreate ==
    /\ last.op = "create"
    /\ last.cli.title = <<<<" ", "7", " ">>>>
    /\ last.cli.title_arg = <<<<"7", "z">>>>
    /\ last.out.err = "numeric_title"
    /\ files = last.before

(***************************************************************************)
(* rfc init (init.rs)                                                      *)
(*                                                                         *)
(* In SpecInit files is the tree of the working directory: it maps each    *)
(* path that exists, a sequence of names, to "dir" or to the content of    *)
(* the file.                                                               *)
(***************************************************************************)

RFC_DIR == <<"rfc">>
SKILLS_ROOT == <<".agents", "skills">>
CREATE_RFC_SKILL == "create-rfc"
CREATE_RFC_SKILL_MD == "CREATE_RFC_SKILL_MD"
CREATE_RFC_OPENAI_YAML == "CREATE_RFC_OPENAI_YAML"
TemplatePath == RFC_DIR \o <<"0000-template.md">>

Prefixes(path) == {SubSeq(path, 1, n) : n \in 1..Len(path)}

NoTree == [err |-> "", tree |-> EmptyDir]

\* fs::create_dir_all: fails when a name on the path is a file
create_dir_all(tree, path) ==
    IF \E q \in Prefixes(path) : q \in DOMAIN tree /\ tree[q] # "dir"
    THEN [err |-> "create_failed", tree |-> tree]
    ELSE [err |-> "",
          tree |-> [q \in DOMAIN tree \cup Prefixes(path) |->
                       IF q \in DOMAIN tree THEN tree[q] ELSE "dir"]]

\* write_if_missing
write_if_missing(tree, path, content) ==
    IF path \in DOMAIN tree THEN tree
    ELSE [q \in DOMAIN tree \cup {path} |-> IF q = path THEN content ELSE tree[q]]

\* The steps of run, each on the tree the step before it left
init_skill(made) ==
    IF made.err # "" THEN made
    ELSE [made EXCEPT !.tree =
            write_if_missing(
                write_if_missing(@, SKILLS_ROOT \o <<CREATE_RFC_SKILL, "SKILL.md">>,
                                 CREATE_RFC_SKILL_MD),
                SKILLS_ROOT \o <<CREATE_RFC_SKILL, "agents", "openai.yaml">>,
                CREATE_RFC_OPENAI_YAML)]

init_agents(made) ==
    IF made.err # "" THEN made
    ELSE init_skill(create_dir_all(made.tree, SKILLS_ROOT \o <<CREATE_RFC_SKILL, "agents">>))

init_skills_root(made) ==
    IF made.err # "" THEN made ELSE init_agents(create_dir_all(made.tree, SKILLS_ROOT))

\* init::run
init_run(tree) == init_skills_root(create_dir_all(tree, RFC_DIR))

(***************************************************************************)
(* SpecInit: rfc init in drawn working directories                         *)
(***************************************************************************)

Tree(entries) == [path \in {e[1] : e \in entries} |->
                     (CHOOSE e \in entries : e[1] = path)[2]]

\* What the working directory holds of rfc: nothing, a file of that name,
\* the directory, the directory with a template
RfcTrees ==
    {{}, {<<RFC_DIR, "file">>}, {<<RFC_DIR, "dir">>}}
    \cup {{<<RFC_DIR, "dir">>, <<TemplatePath, t>>} : t \in {"custom", "embedded"}}

SkillFiles ==
    {{}} \cup {{<<SKILLS_ROOT \o <<CREATE_RFC_SKILL, "SKILL.md">>, t>>} :
                  t \in {"custom", CREATE_RFC_SKILL_MD}}

AgentFiles ==
    {{}} \cup {{<<SKILLS_ROOT \o <<CREATE_RFC_SKILL, "agents", "openai.yaml">>, t>>} :
                  t \in {"custom", CREATE_RFC_OPENAI_YAML}}

\* What it holds of .agents: nothing, the directory, the skills root, the
\* create-rfc skill in part or whole
SkillTrees ==
    {{}, {<<<<".agents">>, "dir">>},
     {<<<<".agents">>, "dir">>, <<SKILLS_ROOT, "dir">>}}
    \cup {{<<<<".agents">>, "dir">>, <<SKILLS_ROOT, "dir">>,
           <<SKILLS_ROOT \o <<CREATE_RFC_SKILL>>, "dir">>} \cup skill :
              skill \in SkillFiles}
    \cup {{<<<<".agents">>, "dir">>, <<SKILLS_ROOT, "dir">>,
           <<SKILLS_ROOT \o <<CREATE_RFC_SKILL>>, "dir">>,
           <<SKILLS_ROOT \o <<CREATE_RFC_SKILL, "agents">>, "dir">>} \cup skill \cup agent :
              skill \in SkillFiles, agent \in AgentFiles}

InitInit ==
    /\ files \in {Tree(r \cup k) : r \in RfcTrees, k \in SkillTrees}
    /\ now = 0
    /\ removed = 0
    /\ last = [op |-> "start", before |-> EmptyDir, err |-> ""]

\* `rfc init`
RfcInit ==
    /\ last.op = "start"
    /\ files' = init_run(files).tree
    /\ last' = [op |-> "rfc_init", before |-> files, err |-> init_run(files).err]
    /\ UNCHANGED <<now, removed>>

NextInit == RfcInit

SpecInit == InitInit /\ [][NextInit]_vars

IsDir(tree, path) == path \in DOMAIN tree /\ tree[path] = "dir"

\* C26: without the skills root rfc init fails and makes no rfc directory;
\* with it, rfc init makes the rfc directory, writes the template when
\* there is none, leaves a template that is there as it is, and makes no
\* create-rfc skill.
C26_InitNeedsSkillsRoot ==
    last.op = "rfc_init" =>
        IF ~IsDir(last.before, SKILLS_ROOT)
        THEN /\ last.err # ""
             /\ RFC_DIR \notin DOMAIN last.before => RFC_DIR \notin DOMAIN files
        ELSE IsDir(last.before, RFC_DIR) \/ RFC_DIR \notin DOMAIN last.before =>
                /\ last.err = ""
                /\ IsDir(files, RFC_DIR)
                /\ TemplatePath \in DOMAIN files
                /\ TemplatePath \in DOMAIN last.before =>
                       files[TemplatePath] = last.before[TemplatePath]
                /\ SKILLS_ROOT \o <<CREATE_RFC_SKILL>> \notin DOMAIN last.before =>
                       SKILLS_ROOT \o <<CREATE_RFC_SKILL>> \notin DOMAIN files

(***************************************************************************)
(* SpecPeople: creates and revises with authors and agents, from an empty  *)
(* directory                                                               *)
(***************************************************************************)

InitPeople ==
    /\ files \in {EmptyDir, TemplateDir}
    /\ now = 0
    /\ removed = 0
    /\ last = InitLast

\* `rfc new [--author <a>].. [--agent <g>].. --title a`, with or without a
\* git user.name, and `rfc new --author Roger --title c`
PeopleCreate ==
    \/ \E people \in {<<<<>>, <<>>>>, <<<<>>, <<"Roger">>>>,
                      <<<<"Roger", "Alice", "Roger">>, <<>>>>},
          agents \in {<<>>, <<"x", "x">>} :
           Create([NoCli EXCEPT !.title = <<<<"a">>>>, !.authors = people[1],
                                !.agents = agents], people[2])
    \/ Create([NoCli EXCEPT !.title = <<<<"c">>>>, !.authors = <<"Roger">>], <<>>)

\* `rfc revise [--author <a>].. [--agent <g>].. 1`
PeopleRevise ==
    \E authors \in {<<>>, <<"Alice">>, <<"Roger", "Bob", "Bob">>},
       agents \in {<<>>, <<"y", "x", "y">>} :
        Revise([NoCli EXCEPT !.title_arg = <<<<"1">>>>, !.authors = authors,
                             !.agents = agents])

NextPeople == PeopleCreate \/ PeopleRevise

SpecPeople == InitPeople /\ [][NextPeople]_vars

\* C27: in every document the authors and the agents hold no value twice,
\* and there is at least one author.
C27_PeopleDistinct ==
    \A name \in Documents(files) :
        /\ \A i, j \in DOMAIN files[name].authors :
               files[name].authors[i] = files[name].authors[j] => i = j
        /\ \A i, j \in DOMAIN files[name].agents :
               files[name].agents[i] = files[name].agents[j] => i = j
        /\ files[name].authors # <<>>

\* Document 0001, created for Roger, Alice, Roger and the agent x twice, has
\* been revised for Roger, Bob, Bob and the agents y, x, y.
C27_Witness ==
    /\ last.op = "revise"
    /\ last.cli.authors = <<"Roger", "Bob", "Bob">>
    /\ last.out.err = ""
    /\ files[last.out.path].authors = <<"Roger", "Alice", "Bob">>
    /\ files[last.out.path].agents = <<"x", "y">>

(***************************************************************************)
(* SpecTiers: the three tiers on drawn indexes and references              *)
(***************************************************************************)

\* Stored titles: plain, capital, with blanks at the ends, with a dropped
\* character, of dropped characters alone, with a blank, an underscore or a
\* no-break space inside
TierTitles ==
    {<<"a">>, <<"A">>, <<" ", "a">>, <<"a", "!">>, <<"!">>, <<"a", " ", "b">>,
     <<"a", "_", "b">>, <<"a", "NBSP">>}

TierReferences ==
    {<<"a">>, <<"A">>, <<" ", "a", " ">>, <<"a", "!">>, <<"?">>, <<"a", "-", "b">>,
     <<"z">>, <<" ">>}

\* The index that RfcTitleIndex::load builds from documents 1.. with the
\* titles given
IndexOfTitles(titles) ==
    [i \in DOMAIN titles |-> RfcTitleEntry([rfc |-> format_04(i), title |-> titles[i]])]

InitTiers ==
    /\ files = EmptyDir
    /\ now = 0
    /\ removed = 0
    /\ last \in {[op |-> "index", index |-> IndexOfTitles(titles), reference |-> <<>>,
                  exact |-> <<>>, folded |-> <<>>, slug |-> <<>>,
                  found |-> NoMatch, conflicts |-> <<>>] :
                     titles \in UNION {[1..n -> TierTitles] : n \in 0..MaxDocs}}

\* resolve_title and find_title_conflicts on one reference, with the three
\* filters of resolve_title
Resolve ==
    /\ last.op = "index"
    /\ \E reference \in TierReferences :
           last' = [last EXCEPT
                      !.op = "resolve_title",
                      !.reference = reference,
                      !.exact = exact_matches(last.index, trim(reference)),
                      !.folded = folded_matches(last.index,
                                                to_ascii_lowercase(trim(reference))),
                      !.slug = slug_matches(last.index, slugify(trim(reference))),
                      !.found = resolve_title(last.index, reference),
                      !.conflicts = find_title_conflicts(last.index, reference)]
    /\ UNCHANGED <<files, now, removed>>

NextTiers == Resolve

SpecTiers == InitTiers /\ [][NextTiers]_vars

\* The positions of an index whose title has the slug of the reference
SameSlug(index, reference) ==
    {i \in DOMAIN index : slugify(index[i].title) = slugify(trim(reference))}

\* C28: for a reference that is not blank, the exact matches are among the
\* case-insensitive ones and these among the slug matches; resolve_title
\* answers not-found exactly when no title of the index has the slug of the
\* reference; and every exact match is among the conflicts.
C28_TiersNested ==
    (last.op = "resolve_title" /\ trim(last.reference) # <<>>) =>
        /\ Range(last.exact) \subseteq Range(last.folded)
        /\ Range(last.folded) \subseteq Range(last.slug)
        /\ last.found.err = "not_found" <=> SameSlug(last.index, last.reference) = {}
        /\ Range(last.exact) \subseteq Range(last.conflicts)

\* The reference `a` has one exact match, a second match by case and a
\* third by slug, and is resolved to the first.
C28_Witness ==
    /\ last.op = "resolve_title"
    /\ last.reference = <<"a">>
    /\ Len(last.exact) = 1
    /\ Len(last.folded) = 2
    /\ Len(last.slug) = 3
    /\ last.found.err = ""
    /\ Len(last.conflicts) = 3

(***************************************************************************)
(* SpecRetitle: document 0002 retitled by revise, then one command that    *)
(* names a title                                                           *)
(***************************************************************************)

\* Document 0001 titled `a`, `A` or `a!` and document 0002 titled `c`
InitRetitle ==
    /\ files \in {CorpusOf(<<t, <<"c">>>>) : t \in {<<"a">>, <<"A">>, <<"a", "!">>}}
    /\ now = 0
    /\ removed = 0
    /\ last = InitLast

NamedTitles == {<<"a">>, <<"A">>, <<"a", "!">>, <<"z">>}

\* `rfc revise --title <t> 2`
Retitle ==
    /\ last.op = "init"
    /\ \E t \in NamedTitles : Revise([NoCli EXCEPT !.title_arg = <<<<"2">>>>, !.title = <<t>>])

\* After the retitling: `rfc new --author Roger --title <t>`
CreateNamed ==
    /\ last.op = "revise"
    /\ last.cli.title # <<>>
    /\ \E t \in NamedTitles : Create([NoCli EXCEPT !.title = <<t>>, !.authors = <<"Roger">>], <<>>)

\* After the retitling: `rfc revise --prerequisite <t> 1`
ReferNamed ==
    /\ last.op = "revise"
    /\ last.cli.title # <<>>
    /\ \E t \in NamedTitles :
           Revise([NoCli EXCEPT !.title_arg = <<<<"1">>>>, !.prerequisite = <<t>>])

NextRetitle == Retitle \/ CreateNamed \/ ReferNamed

SpecRetitle == InitRetitle /\ [][NextRetitle]_vars

\* Two titles are equal, equal but for the case, or have the same slug
SameTitle(t, u) ==
    \/ t = u
    \/ to_ascii_lowercase(trim(t)) = to_ascii_lowercase(trim(u))
    \/ slugify(t) = slugify(u)

Titled(dir, t) == {name \in Documents(dir) : dir[name].title = t}

\* Some document of the directory has the title t and another one a title
\* that is the same in one of the three ways
Clash(dir, t) ==
    \E m \in Titled(dir, t), n \in Documents(dir) : m # n /\ SameTitle(dir[n].title, t)

RetitleUnchecked ==
    (last.op = "revise" /\ last.cli.title # <<>>) =>
        /\ last.out.err = ""
        /\ files[last.out.path].title = last.cli.title[1]

CreateSeesClash ==
    (last.op = "create" /\ Clash(last.before, last.cli.title[1])) =>
        /\ last.out.err = "title_conflicts"
        /\ files = last.before

ancestors(cwd) == IF cwd = "member" THEN <<"member", "root">> ELSE <<"root">>

NoRoots == [workspace_root |-> <<>>, crate_root |-> <<>>, done |-> FALSE]

\* One iteration of the loop of discover_project_roots
discover_step(roots, dir, manifest) ==
    IF roots.done \/ manifest = "none" THEN roots
    ELSE [crate_root |-> IF roots.crate_root = <<>> THEN <<dir>> ELSE roots.crate_root,
          workspace_root |-> IF manifest = "workspace" THEN <<dir>> ELSE roots.workspace_root,
          done |-> manifest = "workspace"]

RECURSIVE discover_from(_, _, _)
discover_from(roots, dirs, manifests) ==
    IF dirs = <<>> THEN roots
    ELSE discover_from(discover_step(roots, Head(dirs), manifests[Head(dirs)]),
                       Tail(dirs), manifests)

\* discover_project_roots
discover_project_roots(cwd, manifests) == discover_from(NoRoots, ancestors(cwd), manifests)

project_dir_of(roots, cwd) ==
    IF roots.workspace_root # <<>> THEN roots.workspace_root[1]
    ELSE IF roots.crate_root # <<>> THEN roots.crate_root[1]
    ELSE cwd

\* resolve_project_rfc_dir: the directory whose rfc directory is scanned
resolve_project_rfc_dir(cwd, manifests) ==
    project_dir_of(discover_project_roots(cwd, manifests), cwd)

(***************************************************************************)
(* SpecRoots: one create run in the root or in the member crate.  files    *)
(* maps each of the two directories to its rfc directory.                  *)
(***************************************************************************)

Layouts ==
    {[root |-> r, member |-> m] : r \in {"none", "package", "workspace"},
                                  m \in {"none", "package"}}

InitRoots ==
    /\ files \in {[root |-> r, member |-> m] :
                     r \in {TemplateDir, CorpusOf(<<<<"a">>>>)},
                     m \in {EmptyDir, CorpusOf(<<<<"c">>>>)}}
    /\ now = 0
    /\ removed = 0
    /\ last \in {[op |-> "init", cli |-> NoCli, before |-> files, out |-> NoOutcome,
                  manifests |-> layout, cwd |-> "root", scanned |-> "root"] :
                     layout \in Layouts}

\* `rfc new --author Roger [--prerequisite a] --title <t>` run in cwd
CreateIn(cwd, scanned, cli) ==
    \E out \in {create_rfc_from(cli, <<>>, files[scanned], order, files[cwd], now) :
                   order \in Orders(indexed_names(files[scanned]))} :
        /\ files' = [files EXCEPT ![cwd] = Written(@, out)]
        /\ last' = [last EXCEPT !.op = "create", !.cli = cli, !.before = files, !.out = out,
                                !.cwd = cwd, !.scanned = scanned]
        /\ UNCHANGED <<now, removed>>

CreateSomewhere ==
    /\ last.op = "init"
    /\ \E cwd \in {"root", "member"}, t \in {<<"a">>, <<"z">>},
          prerequisite \in {<<>>, <<<<"a">>>>} :
           CreateIn(cwd, resolve_project_rfc_dir(cwd, last.manifests),
                    [NoCli EXCEPT !.title = <<t>>, !.authors = <<"Roger">>,
                                  !.prerequisite = prerequisite])

NextRoots == CreateSomewhere

SpecRoots == InitRoots /\ [][NextRoots]_vars

\* C30: the rfc directory that a create scans for titles is the one in
\* which it allocates the identifier and writes, wherever it is run.
C30_OneDirectory ==
    last.op = "create" => last.scanned = last.cwd

====
